---- MODULE Spec2Model ----
(***************************************************************************)
(* CutMark-PDF: image metadata codec (imageProcessing.ts), DPI             *)
(* reconciliation and vector compositor (pdfService.ts), raster compositor *)
(* (imageExportService.ts).                                                *)
(*                                                                         *)
(* Conventions                                                             *)
(*   - a buffer is a sequence of bytes 0..255; offsets are 0-based as in   *)
(*     the source (byte o of b is b[o + 1]);                               *)
(*   - a resolution is held in units of 1/10000 DPI (300 DPI = 3000000),   *)
(*     so that x * 2.54 and ppu * 0.0254 are exact integers;               *)
(*   - a DataView read outside the buffer raises RangeError: the readers   *)
(*     below return OOB for it and the callers turn it into the outcome    *)
(*     the source gives (caught -> null, or propagated -> "throw").        *)
(***************************************************************************)
EXTENDS Integers, Sequences, FiniteSets, TLC

VARIABLES
    cType,      \* codec run: declared container type, "jpeg" | "png"
    cIn,        \* codec run: the input buffer
    cDpi,       \* codec run: the resolution handed to setBlobDpi
    cOut,       \* codec run: outcome of setBlobDpi
    cRead,      \* codec run: getImageResolution of the output
    cReadIn,    \* codec run: getImageResolution of the input
    cScanIn,    \* codec run: scanImageMetadata of the input
    cPc,        \* codec run: "start" | "read" | "written" | "done"
    xOp,        \* export: "saveMarkedPdf" | "saveImagesAsPdf" | "exportImagesAsZip"
    xFiles,     \* export: imageFiles, a sequence of file names
    xPdf,       \* export: page sizes of the PDF handed to saveMarkedPdf
    xCuts,      \* export: cuts
    xSettings,  \* export: settings
    xPc,        \* export: "scan" | "pages" | "done" | "thrown" | "idle"
    xBase,      \* saveImagesAsPdf: baseDpi
    xMixed,     \* saveImagesAsPdf: hasMixedDpi
    xScan,      \* saveImagesAsPdf: number of files the reconcile loop has taken
    xEff,       \* saveImagesAsPdf: effectiveDpi
    xI,         \* export: loop index i
    xDoc,       \* export: pages of pdfDoc, each with its drawing calls
    xZip,       \* exportImagesAsZip: entries of zip
    xProgress,  \* exportImagesAsZip: calls of onProgress so far
    xErr,       \* export: what the export rejected with, "none" | "read" | "RangeError" | "decode"
    xOut,       \* export: what the caller got, "none" | "pdf" | "download"
    kTable,     \* crc32: the entries of crcTable made so far, entry n at n + 1
    kBuf,       \* crc32: the argument buf
    kPos,       \* crc32: loop index i
    kReg,       \* crc32: the register crc
    kOut,       \* crc32: the value returned
    kPc,        \* crc32: "table" | "ready" | "loop" | "done" | "idle"
    hCuts,          \* useCuts: cuts
    hHistory,       \* useCuts: history
    hHistoryIndex,  \* useCuts: historyIndex
    hSelectedCutId, \* useCuts: selectedCutId
    hBaseState,     \* useCuts: baseStateRef.current
    hNumbering,     \* useCuts: numberingState of the caller
    hDrag,          \* CutMarker: the drag under way, with what its mousedown captured
    hMade,          \* App: how many ids crypto.randomUUID has given out
    hSteps,         \* handler calls so far
    hPrev,          \* the handler that ran last
    hPrior,         \* the handler that ran before it
    vDocType,         \* useDocumentViewer: docType, "none" for null
    vPdfFile,         \* useDocumentViewer: pdfFile, a PDF being its number of pages
    vImageFiles,      \* useDocumentViewer: imageFiles, a file being its name
    vCurrentImageUrl, \* useDocumentViewer: currentImageUrl
    vNumPages,        \* useDocumentViewer: numPages
    vCurrentPage,     \* useDocumentViewer: currentPage
    vEffects,         \* the instances of the image effect, the last one current
    vCreated,         \* the object URLs URL.createObjectURL has made
    vRevoked,         \* the object URLs URL.revokeObjectURL was called with
    vLoading,         \* the PDF the Document component is loading, 0 for none
    vSteps            \* handler calls of the viewer so far

codecVars == <<cType, cIn, cDpi, cOut, cRead, cReadIn, cScanIn, cPc>>

exportVars ==
    <<xOp, xFiles, xPdf, xCuts, xSettings, xPc, xErr, xBase, xMixed, xScan, xEff, xI,
      xDoc, xZip, xProgress, xOut>>

crcVars == <<kTable, kBuf, kPos, kReg, kOut, kPc>>

historyVars ==
    <<hCuts, hHistory, hHistoryIndex, hSelectedCutId, hBaseState, hNumbering, hDrag,
      hMade, hSteps, hPrev, hPrior>>

viewerVars ==
    <<vDocType, vPdfFile, vImageFiles, vCurrentImageUrl, vNumPages, vCurrentPage,
      vEffects, vCreated, vRevoked, vLoading, vSteps>>

vars == <<codecVars, exportVars, crcVars, historyVars, viewerVars>>

nonCodecVars == <<exportVars, crcVars, historyVars, viewerVars>>

nonExportVars == <<codecVars, crcVars, historyVars, viewerVars>>

nonCrcVars == <<codecVars, exportVars, historyVars, viewerVars>>

nonHistoryVars == <<codecVars, exportVars, crcVars, viewerVars>>

nonViewerVars == <<codecVars, exportVars, crcVars>>

-----------------------------------------------------------------------------
(* Bytes and DataView                                                      *)

OOB == 0 - 1

\* stands for every 32-bit value of 2^31 or more, and bounds offsets: a value
\* of 2^30 or more lies outside every buffer of the model
Huge == 1024 * 1024 * 1024

SatAdd(a, b) == IF a >= Huge \/ b >= Huge - a THEN Huge ELSE a + b

Bytes == 0 .. 255

U8(b, o) == IF o >= 0 /\ o < Len(b) THEN b[o + 1] ELSE OOB

U16(b, o) == IF o >= 0 /\ o + 2 <= Len(b) THEN b[o + 1] * 256 + b[o + 2] ELSE OOB

U16e(b, o, little) ==
    IF o >= 0 /\ o + 2 <= Len(b)
    THEN IF little THEN b[o + 2] * 256 + b[o + 1] ELSE b[o + 1] * 256 + b[o + 2]
    ELSE OOB

Pack32(b0, b1, b2, b3) ==
    IF b0 >= 128 THEN Huge ELSE ((b0 * 256 + b1) * 256 + b2) * 256 + b3

U32e(b, o, little) ==
    IF o >= 0 /\ o < Huge /\ o + 4 <= Len(b)
    THEN IF little THEN Pack32(b[o + 4], b[o + 3], b[o + 2], b[o + 1])
                   ELSE Pack32(b[o + 1], b[o + 2], b[o + 3], b[o + 4])
    ELSE OOB

U32(b, o) == U32e(b, o, FALSE)

Be16(v) == <<(v \div 256) % 256, v % 256>>

Be32(v) == <<(v \div 16777216) % 256, (v \div 65536) % 256, (v \div 256) % 256, v % 256>>

\* Uint8Array.slice(from, to), clamped to the buffer
Slice(b, from, to) ==
    LET hi == IF to > Len(b) THEN Len(b) ELSE to
    IN  IF from >= hi THEN <<>> ELSE SubSeq(b, from + 1, hi)

\* a chain  getUint8(o) === p[1] && getUint8(o+1) === p[2] && ...  with
\* short-circuit evaluation: "yes", "no", or "throw" at the first read
\* that leaves the buffer
RECURSIVE MatchFrom(_, _, _, _)
MatchFrom(b, o, p, i) ==
    IF i > Len(p) THEN "yes"
    ELSE IF U8(b, o + i - 1) = OOB THEN "throw"
    ELSE IF U8(b, o + i - 1) # p[i] THEN "no"
    ELSE MatchFrom(b, o, p, i + 1)

MatchBytes(b, o, p) == MatchFrom(b, o, p, 1)

JFIF_ID == <<74, 70, 73, 70, 0>>
EXIF_ID4 == <<69, 120, 105, 102>>

\* 'Exif' then getUint16(o + 4) === 0
MatchExif(b, o) ==
    LET m == MatchBytes(b, o, EXIF_ID4)
    IN  IF m # "yes" THEN m
        ELSE IF U16(b, o + 4) = OOB THEN "throw"
        ELSE IF U16(b, o + 4) = 0 THEN "yes" ELSE "no"

-----------------------------------------------------------------------------
(* Resolutions                                                             *)

NullDpi == [st |-> "null", x |-> 0, y |-> 0]
Thrown == [st |-> "throw", x |-> 0, y |-> 0]
Dpi(x, y) == [st |-> "dpi", x |-> x, y |-> y]

\* n DPI in model units
DpiUnits == 100 * 100

\* numerator / denominator, 0 for a zero denominator
Ratio(num, den) == IF den = 0 THEN 0 ELSE (num * DpiUnits) \div den

\* v * 2.54 on a value already in model units
TimesCm(v) == (v * 254) \div 100

-----------------------------------------------------------------------------
(* imageProcessing.ts: getImageResolution                                  *)

SOI == 65496           \* 0xFFD8
APP0 == 65504          \* 0xFFE0
APP1 == 65505          \* 0xFFE1
SOS == 65498           \* 0xFFDA
EOI == 65497           \* 0xFFD9
TIFF_II == 18761       \* 0x4949
TIFF_MM == 19789       \* 0x4D4D
TIFF_MAGIC == 42       \* 0x002A
TAG_ORIENTATION == 274 \* 0x0112
TAG_XRES == 282        \* 0x011A
TAG_YRES == 283        \* 0x011B
TAG_UNIT == 296        \* 0x0128
PHYS == 1883789683     \* 'pHYs' 0x70485973
IDAT == 1229209940     \* 'IDAT' 0x49444154
EXIF_CHUNK == 1700284774 \* 'eXIf' 0x65584966

\* the IFD entry loop of getImageResolution (lines 82-110): acc holds xRes,
\* yRes, unit (0 = null or 0, both falsy) and whether a read has thrown
RECURSIVE GirEntries(_, _, _, _, _, _, _)
GirEntries(b, tiffStart, ifdOffset, little, i, n, acc) ==
    LET entryOffset == ifdOffset + 2 + (i * 12)
        tag == U16e(b, entryOffset, little)
        type == U16e(b, entryOffset + 2, little)
        valueOffset == U32e(b, entryOffset + 8, little)
        numerator == U32e(b, SatAdd(tiffStart, valueOffset), little)
        denominator == U32e(b, SatAdd(tiffStart + 4, valueOffset), little)
    IN  IF i >= n \/ entryOffset + 12 > Len(b) THEN acc
        ELSE IF tag = TAG_XRES \/ tag = TAG_YRES THEN
            IF type # 5 THEN GirEntries(b, tiffStart, ifdOffset, little, i + 1, n, acc)
            ELSE IF numerator = OOB \/ denominator = OOB THEN [acc EXCEPT !.thrown = TRUE]
            ELSE IF tag = TAG_XRES
                 THEN GirEntries(b, tiffStart, ifdOffset, little, i + 1, n,
                                 [acc EXCEPT !.x = Ratio(numerator, denominator)])
                 ELSE GirEntries(b, tiffStart, ifdOffset, little, i + 1, n,
                                 [acc EXCEPT !.y = Ratio(numerator, denominator)])
        ELSE IF tag = TAG_UNIT
             THEN GirEntries(b, tiffStart, ifdOffset, little, i + 1, n,
                             [acc EXCEPT !.unit = U16e(b, entryOffset + 8, little)])
             ELSE GirEntries(b, tiffStart, ifdOffset, little, i + 1, n, acc)

NoTiff == [x |-> 0, y |-> 0, unit |-> 0, orientation |-> 0, thrown |-> FALSE]

\* the JPEG marker walk (lines 11-120); every RangeError is caught at line
\* 150 and the function returns null
RECURSIVE GirJpegWalk(_, _)
GirJpegWalk(b, offset) ==
    IF offset >= Len(b) \/ offset + 4 > Len(b) THEN NullDpi
    ELSE
    LET marker == U16(b, offset)
        length == U16(b, offset + 2)
        next == offset + 2 + length
        jfif == MatchBytes(b, offset + 4, JFIF_ID)
        units == U8(b, offset + 13)
        xDensity == U16(b, offset + 14)
        yDensity == U16(b, offset + 16)
        exif == MatchExif(b, offset + 4)
        tiffStart == offset + 10
        little == U16(b, tiffStart) = TIFF_II
        firstIFDOffset == U32e(b, tiffStart + 4, little)
        ifdOffset == SatAdd(tiffStart, firstIFDOffset)
        numEntries == U16e(b, ifdOffset, little)
        e == GirEntries(b, tiffStart, ifdOffset, little, 0, numEntries, NoTiff)
    IN  IF marker = APP0 THEN
            IF jfif = "throw" THEN NullDpi
            ELSE IF jfif = "no" THEN GirJpegWalk(b, next)
            ELSE IF units = OOB \/ xDensity = OOB \/ yDensity = OOB THEN NullDpi
            ELSE IF units = 1 THEN Dpi(xDensity * DpiUnits, yDensity * DpiUnits)
            ELSE IF units = 2 THEN Dpi(xDensity * 25400, yDensity * 25400)
            ELSE GirJpegWalk(b, next)
        ELSE IF marker = APP1 THEN
            IF exif = "throw" THEN NullDpi
            ELSE IF exif = "no" THEN GirJpegWalk(b, next)
            ELSE IF tiffStart + 8 > Len(b) THEN NullDpi
            ELSE IF U16e(b, tiffStart + 2, little) # TIFF_MAGIC THEN GirJpegWalk(b, next)
            ELSE IF firstIFDOffset < 8 THEN GirJpegWalk(b, next)
            ELSE IF ifdOffset + 2 > Len(b) THEN NullDpi
            ELSE IF e.thrown THEN NullDpi
            ELSE IF e.x # 0 /\ e.y # 0 /\ e.unit = 2 THEN Dpi(e.x, e.y)
            ELSE IF e.x # 0 /\ e.y # 0 /\ e.unit = 3 THEN Dpi(TimesCm(e.x), TimesCm(e.y))
            ELSE GirJpegWalk(b, next)
        ELSE GirJpegWalk(b, next)

\* the PNG chunk walk (lines 123-148)
RECURSIVE GirPngWalk(_, _)
GirPngWalk(b, offset) ==
    IF offset >= Len(b) \/ offset + 8 > Len(b) THEN NullDpi
    ELSE
    LET length == U32(b, offset)
        chunkType == U32(b, offset + 4)
        ppuX == U32(b, offset + 8)
        ppuY == U32(b, offset + 12)
        unit == U8(b, offset + 16)
    IN  IF chunkType = PHYS THEN
            IF ppuX = OOB \/ ppuY = OOB \/ unit = OOB THEN NullDpi
            ELSE IF unit = 1 THEN Dpi(ppuX * 254, ppuY * 254)
            ELSE NullDpi
        ELSE GirPngWalk(b, SatAdd(offset + 12, length))

getImageResolution(b, type) ==
    IF type = "jpeg" THEN
        IF U16(b, 0) = OOB THEN NullDpi
        ELSE IF U16(b, 0) # SOI THEN NullDpi
        ELSE GirJpegWalk(b, 2)
    ELSE IF type = "png" THEN GirPngWalk(b, 8)
    ELSE NullDpi

-----------------------------------------------------------------------------
(* imageProcessing.ts: crc32.  A 32-bit register is the pair of its upper  *)
(* and lower 16-bit half-words, [hi, lo].                                  *)

\* bit i of v
BitOf(v, i) == (v \div (2 ^ i)) % 2

\* a ^ b on 8-bit operands
Xor8(a, b) ==
    ((BitOf(a, 0) + BitOf(b, 0)) % 2)
        + 2 * ((BitOf(a, 1) + BitOf(b, 1)) % 2)
        + 4 * ((BitOf(a, 2) + BitOf(b, 2)) % 2)
        + 8 * ((BitOf(a, 3) + BitOf(b, 3)) % 2)
        + 16 * ((BitOf(a, 4) + BitOf(b, 4)) % 2)
        + 32 * ((BitOf(a, 5) + BitOf(b, 5)) % 2)
        + 64 * ((BitOf(a, 6) + BitOf(b, 6)) % 2)
        + 128 * ((BitOf(a, 7) + BitOf(b, 7)) % 2)

\* a ^ b on 16-bit operands
Xor16(a, b) == 256 * Xor8(a \div 256, b \div 256) + Xor8(a % 256, b % 256)

Reg(hi, lo) == [hi |-> hi, lo |-> lo]

Xor32(a, b) == Reg(Xor16(a.hi, b.hi), Xor16(a.lo, b.lo))

\* c >>> 1
Shr1(c) == Reg(c.hi \div 2, (c.lo \div 2) + (c.hi % 2) * 32768)

\* c >>> 8
Shr8(c) == Reg(c.hi \div 256, (c.lo \div 256) + (c.hi % 256) * 256)

\* 0xEDB88320
CrcPoly == Reg(60856, 33568)

\* -1, all bits set
AllOnes == Reg(65535, 65535)

\* the step with the polynomial folded in whatever the low bit is
CrcStepAlways(c) == Xor32(CrcPoly, Shr1(c))

\* one step of the inner loop of makeCrcTable (line 163)
CrcStep(c) == IF c.lo % 2 = 1 THEN Xor32(CrcPoly, Shr1(c)) ELSE Shr1(c)

\* crcTable[n] (lines 160-166)
crcTable(n) ==
    CrcStep(CrcStep(CrcStep(CrcStep(CrcStep(CrcStep(CrcStep(CrcStep(Reg(0, n)))))))))

\* the loop body of crc32 (line 173)
CrcUpdate(crc, byte) == Xor32(Shr8(crc), crcTable(Xor8(crc.lo % 256, byte)))

\* the register after the first n bytes (lines 171-174); the register of the
\* previous iteration is computed before the loop body is applied to it
RECURSIVE CrcLoop(_, _)
CrcLoop(buf, n) ==
    IF n = 0 THEN AllOnes
    ELSE LET prev == CrcLoop(buf, n - 1)
         IN  IF prev.lo \in 0 .. 65535 THEN CrcUpdate(prev, buf[n]) ELSE prev

\* crc32 (lines 170-176): the register after the final XOR, unsigned
crc32(buf) == Xor32(CrcLoop(buf, Len(buf)), AllOnes)

\* DataView.setUint32(0, crc)
RegBytes(r) == <<r.hi \div 256, r.hi % 256, r.lo \div 256, r.lo % 256>>

-----------------------------------------------------------------------------
(* imageProcessing.ts: setBlobDpi                                          *)

BlobOf(bytes) == [st |-> "blob", bytes |-> bytes, same |-> FALSE]
SameBlob(bytes) == [st |-> "blob", bytes |-> bytes, same |-> TRUE]
BlobThrown == [st |-> "throw", bytes |-> <<>>, same |-> FALSE]

\* Math.round(v) stored by setUint16
RoundDpi16(v) == ((v + (DpiUnits \div 2)) \div DpiUnits) % 65536

\* Math.round(v / 0.0254)
PixelsPerMetre(v) == ((2 * v) + 254) \div 508

\* the same segment with the two densities exchanged
jfifSegmentYX(dpi) ==
    Be16(APP0) \o Be16(16) \o JFIF_ID \o <<1, 1, 1>>
        \o Be16(RoundDpi16(dpi.y)) \o Be16(RoundDpi16(dpi.x)) \o <<0, 0>>

\* the 18-byte segment built at lines 208-227
jfifSegment(dpi) ==
    Be16(APP0) \o Be16(16) \o JFIF_ID \o <<1, 1, 1>>
        \o Be16(RoundDpi16(dpi.x)) \o Be16(RoundDpi16(dpi.y)) \o <<0, 0>>

\* the overwrite of lines 199-201
OverwriteJfif(b, dpi) ==
    [i \in 1 .. Len(b) |->
        IF i = 14 THEN 1
        ELSE IF i = 15 \/ i = 16 THEN Be16(RoundDpi16(dpi.x))[i - 14]
        ELSE IF i = 17 \/ i = 18 THEN Be16(RoundDpi16(dpi.y))[i - 16]
        ELSE b[i]]

SetBlobDpiJpeg(b, dpi) ==
    LET marker == U16(b, 2)
        jfif == IF marker = APP0 THEN MatchBytes(b, 6, JFIF_ID) ELSE "no"
    IN  IF U16(b, 0) = OOB THEN BlobThrown
        ELSE IF U16(b, 0) # SOI THEN SameBlob(b)
        ELSE IF marker = OOB THEN BlobThrown
        ELSE IF jfif = "throw" THEN BlobThrown
        ELSE IF jfif = "yes" THEN
            IF Len(b) < 18 THEN BlobThrown ELSE BlobOf(OverwriteJfif(b, dpi))
        ELSE BlobOf(Slice(b, 0, 2) \o jfifSegment(dpi) \o Slice(b, 2, Len(b)))

pHYsType == <<112, 72, 89, 115>>

\* the 9 data bytes (lines 245-249)
PhysData(dpi) == Be32(PixelsPerMetre(dpi.x)) \o Be32(PixelsPerMetre(dpi.y)) \o <<1>>

\* the same chunk with the checksum taken over the length field as well
PhysChunkLengthSummed(dpi) ==
    Be32(9) \o pHYsType \o PhysData(dpi)
        \o RegBytes(crc32(Be32(9) \o pHYsType \o PhysData(dpi)))

\* length, type, data, checksum (lines 252-262)
PhysChunk(dpi) ==
    Be32(9) \o pHYsType \o PhysData(dpi) \o RegBytes(crc32(pHYsType \o PhysData(dpi)))

insertPos == 33

\* the chunk added after the last chunk instead of after the header chunk
SetBlobDpiPngAtEnd(b, dpi) ==
    IF Len(b) < insertPos THEN BlobThrown ELSE BlobOf(b \o PhysChunk(dpi))

\* the chunk put behind a pHYs chunk that already follows the header chunk
SetBlobDpiPngAfterPhys(b, dpi) ==
    IF Len(b) < insertPos THEN BlobThrown
    ELSE IF MatchBytes(b, insertPos + 4, pHYsType) = "yes" /\ Len(b) >= insertPos + 21
    THEN BlobOf(Slice(b, 0, insertPos + 21) \o PhysChunk(dpi)
                    \o Slice(b, insertPos + 21, Len(b)))
    ELSE BlobOf(Slice(b, 0, insertPos) \o PhysChunk(dpi) \o Slice(b, insertPos, Len(b)))

\* lines 267-279; newBuf has Len(b) + 21 bytes, so for a buffer shorter than
\* insertPos one of the newBuf.set calls at insertPos .. insertPos + 17 ends
\* past newBuf and raises RangeError
SetBlobDpiPng(b, dpi) ==
    IF Len(b) < insertPos THEN BlobThrown
    ELSE BlobOf(Slice(b, 0, insertPos) \o PhysChunk(dpi) \o Slice(b, insertPos, Len(b)))

setBlobDpi(b, dpi, type) ==
    IF type = "jpeg" THEN SetBlobDpiJpeg(b, dpi)
    ELSE IF type = "png" THEN SetBlobDpiPng(b, dpi)
    ELSE SameBlob(b)

-----------------------------------------------------------------------------
(* pdfService.ts: readExifInfoFromTiff, scanJpegMetadata, scanPngMetadata, *)
(* scanImageMetadata.  A file is [mime, ext, bytes, w, h, readable].       *)

\* the IFD entry loop of readExifInfoFromTiff (lines 196-224); every read is
\* inside dataEnd = Len(view), so nothing is thrown
RECURSIVE TiffEntries(_, _, _, _, _, _, _)
TiffEntries(view, tiffStart, ifdOffset, little, i, n, acc) ==
    LET entryOffset == ifdOffset + 2 + (i * 12)
        tag == U16e(view, entryOffset, little)
        type == U16e(view, entryOffset + 2, little)
        count == U32e(view, entryOffset + 4, little)
        value == U16e(view, entryOffset + 8, little)
        valueOffset == U32e(view, entryOffset + 8, little)
        valuePos == SatAdd(tiffStart, valueOffset)
        numerator == U32e(view, valuePos, little)
        denominator == U32e(view, valuePos + 4, little)
        rest(a) == TiffEntries(view, tiffStart, ifdOffset, little, i + 1, n, a)
    IN  IF i >= n \/ entryOffset + 12 > Len(view) THEN acc
        ELSE IF tag = TAG_ORIENTATION THEN
            IF type = 3 /\ count >= 1 /\ value >= 1 /\ value <= 8
            THEN rest([acc EXCEPT !.orientation = value])
            ELSE rest(acc)
        ELSE IF tag = TAG_XRES \/ tag = TAG_YRES THEN
            IF type = 5 /\ valuePos < Huge /\ valuePos + 8 <= Len(view)
            THEN IF tag = TAG_XRES
                 THEN rest([acc EXCEPT !.x = Ratio(numerator, denominator)])
                 ELSE rest([acc EXCEPT !.y = Ratio(numerator, denominator)])
            ELSE rest(acc)
        ELSE IF tag = TAG_UNIT THEN rest([acc EXCEPT !.unit = value])
        ELSE rest(acc)

NoInfo == [orientation |-> 0, dpi |-> NullDpi]

readExifInfoFromTiff(view, tiffStart) ==
    LET endian == U16(view, tiffStart)
        little == endian = TIFF_II
        firstIFDOffset == U32e(view, tiffStart + 4, little)
        ifdOffset == SatAdd(tiffStart, firstIFDOffset)
        numEntries == U16e(view, ifdOffset, little)
        e == TiffEntries(view, tiffStart, ifdOffset, little, 0, numEntries, NoTiff)
        dpi == IF e.x # 0 /\ e.y # 0 /\ e.unit = 2 THEN Dpi(e.x, e.y)
               ELSE IF e.x # 0 /\ e.y # 0 /\ e.unit = 3
                    THEN Dpi(TimesCm(e.x), TimesCm(e.y))
                    ELSE NullDpi
    IN  IF tiffStart + 8 > Len(view) THEN NoInfo
        ELSE IF ~little /\ endian # TIFF_MM THEN NoInfo
        ELSE IF U16e(view, tiffStart + 2, little) # TIFF_MAGIC THEN NoInfo
        ELSE IF firstIFDOffset < 8 THEN NoInfo
        ELSE IF ifdOffset >= Huge \/ ifdOffset + 2 > Len(view) THEN NoInfo
        ELSE [orientation |-> e.orientation, dpi |-> dpi]

ScanThrown == [st |-> "throw", dpi |-> NullDpi, orientation |-> 0]
Scanned(dpi, orientation) == [st |-> "ok", dpi |-> dpi, orientation |-> orientation]

\* JFIF read of lines 255-273 on the 14-byte payload slice
ScanJfif(payload) ==
    LET units == U8(payload, 9)
        xDensity == U16(payload, 10)
        yDensity == U16(payload, 12)
    IN  IF units = 2 THEN Dpi(xDensity * 25400, yDensity * 25400)
        ELSE IF units = 1 THEN Dpi(xDensity * DpiUnits, yDensity * DpiUnits)
        ELSE NullDpi

\* the marker walk of scanJpegMetadata (lines 244-292); nothing catches a
\* RangeError here, so it rejects the promise
RECURSIVE ScanJpegWalk(_, _, _, _)
ScanJpegWalk(b, offset, dpi, orientation) ==
    IF offset + 4 > Len(b) THEN Scanned(dpi, orientation)
    ELSE
    LET marker == U16(b, offset)
        length == U16(b, offset + 2)
        payloadStart == offset + 4
        payloadLength == length - 2
        readLen == IF payloadLength < 14 THEN payloadLength ELSE 14
        jp == Slice(b, payloadStart, payloadStart + readLen)
        isJfif == MatchBytes(jp, 0, JFIF_ID)
        ep == Slice(b, payloadStart, payloadStart + payloadLength)
        hasExifHeader == Len(ep) >= 6 /\ MatchExif(ep, 0) = "yes"
        info == readExifInfoFromTiff(ep, 6)
        step(d, o) == IF d.st = "dpi" /\ o # 0 THEN Scanned(d, o)
                      ELSE ScanJpegWalk(b, offset + 2 + length, d, o)
    IN  IF marker = SOS \/ marker = EOI THEN Scanned(dpi, orientation)
        ELSE IF length < 2 THEN Scanned(dpi, orientation)
        ELSE IF marker = APP0 /\ dpi.st # "dpi" THEN
            IF readLen < 14 THEN step(dpi, orientation)
            ELSE IF isJfif = "throw" THEN ScanThrown
            ELSE IF isJfif = "no" THEN step(dpi, orientation)
            ELSE IF Len(jp) < 14 THEN ScanThrown
            ELSE step(ScanJfif(jp), orientation)
        ELSE IF marker = APP1 /\ hasExifHeader THEN
            step(IF dpi.st # "dpi" /\ info.dpi.st = "dpi" THEN info.dpi ELSE dpi,
                 IF orientation = 0 /\ info.orientation # 0
                 THEN info.orientation ELSE orientation)
        ELSE step(dpi, orientation)

scanJpegMetadata(b) ==
    IF U16(b, 0) = OOB THEN ScanThrown
    ELSE IF U16(b, 0) # SOI THEN Scanned(NullDpi, 0)
    ELSE ScanJpegWalk(b, 2, NullDpi, 0)

PNG_SIG_HI == <<137, 80, 78, 71>>
PNG_SIG_LO == <<13, 10, 26, 10>>

\* pHYs read of lines 318-326 on the 9-byte payload slice
ScanPhys(payload) ==
    IF U8(payload, 8) = 1
    THEN Dpi(U32(payload, 0) * 254, U32(payload, 4) * 254)
    ELSE NullDpi

\* the chunk walk of scanPngMetadata (lines 308-346)
RECURSIVE ScanPngWalk(_, _, _, _)
ScanPngWalk(b, offset, dpi, orientation) ==
    IF offset >= Huge \/ offset + 8 > Len(b) THEN Scanned(dpi, orientation)
    ELSE
    LET length == U32(b, offset)
        chunkType == U32(b, offset + 4)
        dataStart == offset + 8
        pp == Slice(b, dataStart, dataStart + 9)
        xp == Slice(b, dataStart, SatAdd(dataStart, length))
        hdr == MatchExif(xp, 0)
        tiffStart == IF length >= 6 /\ hdr = "yes" THEN 6 ELSE 0
        info == readExifInfoFromTiff(xp, tiffStart)
        step(d, o) == IF d.st = "dpi" /\ o # 0 THEN Scanned(d, o)
                      ELSE ScanPngWalk(b, SatAdd(offset + 12, length), d, o)
    IN  IF chunkType = IDAT THEN Scanned(dpi, orientation)
        ELSE IF chunkType = PHYS /\ dpi.st # "dpi" THEN
            IF length < 9 THEN step(dpi, orientation)
            ELSE IF Len(pp) < 9 THEN ScanThrown
            ELSE step(ScanPhys(pp), orientation)
        ELSE IF chunkType = EXIF_CHUNK THEN
            IF length >= 6 /\ hdr = "throw" THEN ScanThrown
            ELSE step(IF dpi.st # "dpi" /\ info.dpi.st = "dpi" THEN info.dpi ELSE dpi,
                      IF orientation = 0 /\ info.orientation # 0
                      THEN info.orientation ELSE orientation)
        ELSE step(dpi, orientation)

scanPngMetadata(b) ==
    LET hi == MatchBytes(b, 0, PNG_SIG_HI)
        lo == MatchBytes(b, 4, PNG_SIG_LO)
    IN  IF Len(b) < 4 THEN ScanThrown
        ELSE IF hi # "yes" THEN Scanned(NullDpi, 0)
        ELSE IF Len(b) < 8 THEN ScanThrown
        ELSE IF lo # "yes" THEN Scanned(NullDpi, 0)
        ELSE ScanPngWalk(b, 8, NullDpi, 0)

\* the container type of lines 354-361 and 396-404
ImgTypeOf(file) ==
    IF file.mime = "image/jpeg" \/ file.ext = "jpg" THEN "jpeg"
    ELSE IF file.mime = "image/png" \/ file.ext = "png" THEN "png"
    ELSE "none"

scanImageMetadata(file) ==
    IF ImgTypeOf(file) = "none" THEN Scanned(NullDpi, 0)
    ELSE IF ImgTypeOf(file) = "jpeg" THEN scanJpegMetadata(file.bytes)
    ELSE scanPngMetadata(file.bytes)

\* imageProcessing.adjustDpiForOrientation (spec 4.2): orientations 5-8
\* swap the axes, 1-4 and null leave the resolution as it is
adjustDpiForOrientation(dpi, orientation) ==
    IF dpi.st # "dpi" THEN NullDpi
    ELSE IF orientation >= 5 /\ orientation <= 8 THEN Dpi(dpi.y, dpi.x)
    ELSE dpi

-----------------------------------------------------------------------------
(* Sample files: well-formed JPEG and PNG containers assembled from their  *)
(* segments and chunks, and truncations of them.                           *)

SoiBytes == Be16(SOI)
EoiBytes == Be16(EOI)

\* a JFIF APP0 segment as the JFIF format lays it out: marker, length 16,
\* identifier, version 1.1, units, X density, Y density, thumbnail 0 x 0
JfifSeg(units, xd, yd) ==
    Be16(APP0) \o Be16(16) \o JFIF_ID \o <<1, 1, units>> \o Be16(xd) \o Be16(yd) \o <<0, 0>>

\* a big-endian TIFF with one IFD of four entries: orientation, X and Y
\* resolution (RATIONAL num/den), resolution unit
TiffBytes(orientation, xnum, ynum, den, unit) ==
    Be16(TIFF_MM) \o Be16(TIFF_MAGIC) \o Be32(8) \o Be16(4)
        \o Be16(TAG_ORIENTATION) \o Be16(3) \o Be32(1) \o Be16(orientation) \o <<0, 0>>
        \o Be16(TAG_XRES) \o Be16(5) \o Be32(1) \o Be32(62)
        \o Be16(TAG_YRES) \o Be16(5) \o Be32(1) \o Be32(70)
        \o Be16(TAG_UNIT) \o Be16(3) \o Be32(1) \o Be16(unit) \o <<0, 0>>
        \o Be32(0)
        \o Be32(xnum) \o Be32(den) \o Be32(ynum) \o Be32(den)

ExifSeg(orientation, xnum, ynum, den, unit) ==
    LET tiff == TiffBytes(orientation, xnum, ynum, den, unit)
    IN  Be16(APP1) \o Be16(Len(tiff) + 8) \o EXIF_ID4 \o <<0, 0>> \o tiff

\* a quantisation-table segment with a two-byte payload
DqtSeg == <<255, 219, 0, 4, 0, 0>>

IhdrChunk == Be32(13) \o <<73, 72, 68, 82>> \o Be32(4) \o Be32(4) \o <<8, 2, 0, 0, 0>> \o Be32(0)

PhysChunkOf(ppuX, ppuY, unit) ==
    Be32(9) \o pHYsType \o Be32(ppuX) \o Be32(ppuY) \o <<unit>> \o Be32(0)

ExifChunk(orientation, xnum, ynum, den, unit) ==
    LET tiff == TiffBytes(orientation, xnum, ynum, den, unit)
    IN  Be32(Len(tiff)) \o <<101, 88, 73, 102>> \o tiff \o Be32(0)

IdatChunk == Be32(1) \o <<73, 68, 65, 84>> \o <<0>> \o Be32(0)
IendChunk == Be32(0) \o <<73, 69, 78, 68>> \o Be32(0)

PngSig == PNG_SIG_HI \o PNG_SIG_LO

\* every prefix of b that drops at most n bytes, b itself excluded
Truncations(b, n) == { SubSeq(b, 1, Len(b) - k) : k \in 1 .. (IF n > Len(b) THEN Len(b) ELSE n) }

-----------------------------------------------------------------------------
(* Codec runs: a buffer is read, given a resolution by setBlobDpi, and     *)
(* read back.                                                              *)

\* how many trailing bytes a truncated sample may lose
MaxTrunc == 24

Dpi300 == Dpi(300 * DpiUnits, 300 * DpiUnits)

InjectedDpis == {Dpi300, Dpi(150 * DpiUnits, 725000), Dpi(72 * DpiUnits, 96 * DpiUnits)}

JpegFirstSegs ==
    {<<>>, JfifSeg(1, 300, 300), JfifSeg(1, 72, 96), JfifSeg(2, 118, 59),
     JfifSeg(0, 1, 1), JfifSeg(1, 257, 300)}

JpegLaterSegs ==
    {<<>>, DqtSeg, ExifSeg(6, 300, 200, 1, 2), ExifSeg(1, 30001, 30001, 100, 2),
     ExifSeg(0, 118, 118, 1, 3), DqtSeg \o JfifSeg(1, 150, 150)}

JpegSamples == { SoiBytes \o f \o s \o EoiBytes : f \in JpegFirstSegs, s \in JpegLaterSegs }

\* files that end before or right after the magic number of their type
ShortJpegs == {<<>>, <<255>>, SoiBytes, SoiBytes \o Be16(APP0)}
ShortPngs == {<<>>, PNG_SIG_HI, PngSig, PngSig \o Be32(13)}

JpegInputs ==
    JpegSamples
        \cup ShortJpegs
        \cup Truncations(SoiBytes \o JfifSeg(1, 72, 96) \o EoiBytes, MaxTrunc)
        \cup Truncations(SoiBytes \o ExifSeg(6, 300, 200, 1, 2) \o EoiBytes, MaxTrunc)

PngMiddles ==
    {<<>>, PhysChunkOf(11811, 11811, 1), PhysChunkOf(2835, 3780, 1), PhysChunkOf(3, 2, 0),
     ExifChunk(6, 300, 200, 1, 2), ExifChunk(0, 30001, 29999, 100, 2),
     PhysChunkOf(5906, 5906, 1) \o ExifChunk(8, 300, 300, 1, 2)}

PngTails == {IdatChunk \o IendChunk, IdatChunk \o PhysChunkOf(2835, 2835, 1) \o IendChunk}

PngSamples == { PngSig \o IhdrChunk \o m \o t : m \in PngMiddles, t \in PngTails }

\* PNG files that an earlier call of setBlobDpi has written
InjectedPngs ==
    { SetBlobDpiPng(PngSig \o IhdrChunk \o IdatChunk \o IendChunk, r1).bytes :
        r1 \in InjectedDpis }

PngInputs ==
    PngSamples
        \cup ShortPngs
        \cup InjectedPngs
        \cup {SoiBytes \o JfifSeg(1, 72, 96) \o DqtSeg \o DqtSeg \o EoiBytes}
        \cup Truncations(PngSig \o IhdrChunk \o PhysChunkOf(2835, 3780, 1), MaxTrunc)
        \cup Truncations(PngSig \o IhdrChunk \o ExifChunk(6, 300, 200, 1, 2), MaxTrunc)

CodecInputs(type) ==
    IF type = "jpeg" THEN JpegInputs \cup {PngSig \o IhdrChunk \o IendChunk}
    ELSE IF type = "png" THEN PngInputs
    ELSE {SoiBytes \o EoiBytes, PngSig \o IhdrChunk \o IendChunk}

CodecFile(type, bytes) ==
    [mime |-> IF type = "jpeg" THEN "image/jpeg" ELSE IF type = "png" THEN "image/png" ELSE "image/gif",
     ext |-> IF type = "jpeg" THEN "jpg" ELSE IF type = "png" THEN "png" ELSE "gif",
     bytes |-> bytes]

CodecInit ==
    /\ cType \in {"jpeg", "png", "gif"}
    /\ cIn \in CodecInputs(cType)
    /\ cDpi \in InjectedDpis
    /\ cOut = BlobThrown
    /\ cRead = NullDpi
    /\ cReadIn = NullDpi
    /\ cScanIn = Scanned(NullDpi, 0)
    /\ cPc = "start"

\* the two readers applied to the source file
CodecReadInput ==
    /\ cPc = "start"
    /\ cReadIn' = getImageResolution(cIn, cType)
    /\ cScanIn' = scanImageMetadata(CodecFile(cType, cIn))
    /\ cPc' = "read"
    /\ UNCHANGED <<cType, cIn, cDpi, cOut, cRead>>
    /\ UNCHANGED nonCodecVars

CodecInject ==
    /\ cPc = "read"
    /\ cOut' = setBlobDpi(cIn, cDpi, cType)
    /\ cPc' = "written"
    /\ UNCHANGED <<cType, cIn, cDpi, cRead, cReadIn, cScanIn>>
    /\ UNCHANGED nonCodecVars

CodecReadBack ==
    /\ cPc = "written"
    /\ cOut.st = "blob"
    /\ cRead' = getImageResolution(cOut.bytes, cType)
    /\ cPc' = "done"
    /\ UNCHANGED <<cType, cIn, cDpi, cOut, cReadIn, cScanIn>>
    /\ UNCHANGED nonCodecVars

CodecIdle ==
    /\ cType = "jpeg"
    /\ cIn = <<>>
    /\ cDpi = Dpi300
    /\ cOut = BlobThrown
    /\ cRead = NullDpi
    /\ cReadIn = NullDpi
    /\ cScanIn = Scanned(NullDpi, 0)
    /\ cPc = "idle"

CodecNext == CodecReadInput \/ CodecInject \/ CodecReadBack

-----------------------------------------------------------------------------
(* crc32 step by step: the table is filled when the module is loaded, then *)
(* a call runs its loop over the bytes of buf                              *)

\* no checksum is being computed
CrcIdle ==
    /\ kTable = <<>>
    /\ kBuf = <<>>
    /\ kPos = 0
    /\ kReg = Reg(0, 0)
    /\ kOut = Reg(0, 0)
    /\ kPc = "idle"

\* one iteration of the outer loop of makeCrcTable (lines 160-166)
CrcTableEntry ==
    /\ kPc = "table"
    /\ Len(kTable) < 256
    /\ kTable' = Append(kTable, crcTable(Len(kTable)))
    /\ UNCHANGED <<kBuf, kPos, kReg, kOut, kPc>>
    /\ UNCHANGED nonCrcVars

\* line 169: the table is complete
CrcTableDone ==
    /\ kPc = "table"
    /\ Len(kTable) = 256
    /\ kPc' = "ready"
    /\ UNCHANGED <<kTable, kBuf, kPos, kReg, kOut>>
    /\ UNCHANGED nonCrcVars

\* one iteration of the loop of lines 172-174
CrcByte ==
    /\ kPc = "loop"
    /\ kPos < Len(kBuf)
    /\ kReg' = Xor32(Shr8(kReg), kTable[Xor8(kReg.lo % 256, kBuf[kPos + 1]) + 1])
    /\ kPos' = kPos + 1
    /\ UNCHANGED <<kTable, kBuf, kOut, kPc>>
    /\ UNCHANGED nonCrcVars

\* line 175
CrcReturn ==
    /\ kPc = "loop"
    /\ kPos = Len(kBuf)
    /\ kOut' = Xor32(kReg, AllOnes)
    /\ kPc' = "done"
    /\ UNCHANGED <<kTable, kBuf, kPos, kReg>>
    /\ UNCHANGED nonCrcVars

-----------------------------------------------------------------------------
(* Numbers of the compositors: exact rationals n/d in lowest terms, d > 0  *)
(* (the source computes in IEEE doubles; the layout is modelled without    *)
(* their rounding error).                                                  *)

RECURSIVE GCD(_, _)
GCD(a, b) == IF b = 0 THEN a ELSE GCD(b, a % b)

Abs(v) == IF v < 0 THEN 0 - v ELSE v

QNorm(n, d) ==
    LET g == GCD(Abs(n), Abs(d))
    IN  IF d < 0 THEN [n |-> 0 - (n \div g), d |-> 0 - (d \div g)]
        ELSE [n |-> n \div g, d |-> d \div g]

QInt(i) == [n |-> i, d |-> 1]

QNeg(a) == [n |-> 0 - a.n, d |-> a.d]

QAdd(a, b) ==
    LET g == GCD(a.d, b.d)
    IN  QNorm(a.n * (b.d \div g) + b.n * (a.d \div g), (a.d \div g) * b.d)

QSub(a, b) == QAdd(a, QNeg(b))

QMul(a, b) ==
    LET g1 == GCD(Abs(a.n), b.d)
        g2 == GCD(Abs(b.n), a.d)
    IN  QNorm((a.n \div g1) * (b.n \div g2), (a.d \div g2) * (b.d \div g1))

\* a / b for b # 0
QDiv(a, b) == QMul(a, QNorm(b.d, b.n))

QLess(a, b) == QSub(a, b).n < 0

\* Math.max(...widths) of a non-empty array
RECURSIVE QMaxUpTo(_, _)
QMaxUpTo(widths, n) ==
    IF n = 1 THEN widths[1]
    ELSE LET m == QMaxUpTo(widths, n - 1)
         IN  IF QLess(m, widths[n]) THEN widths[n] ELSE m

QMax(widths) == QMaxUpTo(widths, Len(widths))

\* a resolution value of the model (1/10000 DPI) as a number of DPI
DpiQ(v) == QNorm(v, DpiUnits)

-----------------------------------------------------------------------------
(* Labels, fonts, drawing calls                                            *)

\* a label is a sequence of one-character strings
NL == "\n"

\* String.prototype.split('\n')
RECURSIVE split(_)
split(label) ==
    IF \A i \in 1 .. Len(label) : label[i] # NL THEN <<label>>
    ELSE LET i == CHOOSE j \in 1 .. Len(label) :
                      label[j] = NL /\ \A k \in 1 .. j - 1 : label[k] # NL
         IN  <<SubSeq(label, 1, i - 1)>> \o split(SubSeq(label, i + 1, Len(label)))

DigitChars == {"0", "1", "2", "3", "4", "5", "6", "7", "8", "9"}

\* advance width of a glyph of Helvetica-Bold in 1/1000 of the font size
GlyphWidth(ch) == IF ch \in DigitChars THEN 556 ELSE 722

RECURSIVE TextUnits(_)
TextUnits(text) ==
    IF text = <<>> THEN 0 ELSE GlyphWidth(Head(text)) + TextUnits(Tail(text))

\* PDFFont.widthOfTextAtSize
widthOfTextAtSize(text, size) == QMul(QNorm(TextUnits(text), 1000), size)

\* CanvasRenderingContext2D.measureText(text).width under ctx.font of size px
measureText(text, px) == QMul(QNorm(TextUnits(text), 1000), px)

\* one call on a page or a canvas context; cut is the position in the cut
\* list of the mark the call was made for (0: made for the page itself)
Op(name, cut, text, args, color) ==
    [op |-> name, cut |-> cut, text |-> text, args |-> args, color |-> color]

PushGraphicsState(k) == Op("q", k, <<>>, <<>>, "")
\* a second save where the restore belongs
PopGraphicsStateAsPush(k) == Op("q", k, <<>>, <<>>, "")

PopGraphicsState(k) == Op("Q", k, <<>>, <<>>, "")
BeginMarkedContent(k) == Op("BMC", k, <<"Span">>, <<>>, "")
EndMarkedContent(k) == Op("EMC", k, <<>>, <<>>, "")

\* indexes of the cuts of a page, in list order (Array.prototype.filter)
RECURSIVE PageCutsUpTo(_, _, _)
PageCutsUpTo(cuts, pageIndex, n) ==
    IF n = 0 THEN <<>>
    ELSE PageCutsUpTo(cuts, pageIndex, n - 1)
            \o (IF cuts[n].pageIndex = pageIndex THEN <<n>> ELSE <<>>)

\* the cuts of a page, a cut left out when an earlier cut of the list carries
\* the same id
pageCutsDistinctIds(cuts, pageIndex) ==
    LET Keep(k) == /\ cuts[k].pageIndex = pageIndex
                   /\ \A j \in 1 .. k - 1 : cuts[j].id # cuts[k].id
    IN  SelectSeq([k \in 1 .. Len(cuts) |-> k], Keep)

\* every cut, whatever its page
pageCutsUnfiltered(cuts, pageIndex) == [k \in 1 .. Len(cuts) |-> k]

pageCuts(cuts, pageIndex) == PageCutsUpTo(cuts, pageIndex, Len(cuts))

RECURSIVE Flatten(_)
Flatten(seqs) == IF seqs = <<>> THEN <<>> ELSE Head(seqs) \o Flatten(Tail(seqs))

-----------------------------------------------------------------------------
(* pdfService.ts: drawCutsOnPage                                           *)

\* lines 42, 43
boxWidth(maxTextWidth, padding) == QAdd(maxTextWidth, QMul(padding, QInt(2)))

\* the height of a box of one line, whatever the label
boxHeightOfOneLine(lineCount, lineHeight, padding) ==
    QAdd(lineHeight, QMul(padding, QInt(2)))

boxHeight(lineCount, lineHeight, padding) ==
    QAdd(QMul(QInt(lineCount), lineHeight), QMul(padding, QInt(2)))

\* lines 51, 55, 56
boxTopY(height, y) == QSub(height, QMul(y, height))

\* the box set with its left edge, not its centre, at x
rectXFromLeft(x, width, bw) == QMul(x, width)

rectX(x, width, bw) == QSub(QMul(x, width), QDiv(bw, QInt(2)))
rectY(top, bh) == QSub(top, bh)

\* lines 76-79
lineX(rx, padding, maxTextWidth, lw) ==
    QAdd(QAdd(rx, padding), QDiv(QSub(maxTextWidth, lw), QInt(2)))
lineY(top, padding, textSize, index, lineHeight) ==
    QSub(QSub(QSub(top, padding), QMul(textSize, QNorm(88, 100))),
         QMul(QInt(index), lineHeight))

\* a rectangle behind the text of every mark, whatever the style
drawBackgroundAlways(useWhiteBackground, k, rx, ry, bw, bh) ==
    <<Op("drawRectangle", k, <<>>, <<rx, ry, bw, bh>>, "white")>>

\* lines 64-72
drawBackground(useWhiteBackground, k, rx, ry, bw, bh) ==
    IF useWhiteBackground
    THEN <<Op("drawRectangle", k, <<>>, <<rx, ry, bw, bh>>, "white")>>
    ELSE <<>>

\* the calls of one iteration of the loop of lines 23-130
DrawCut(width, height, cut, k, settings, scaleFactor) ==
    LET textSize == QMul(QInt(settings.fontSize), scaleFactor)
        padding == QMul(QInt(settings.backgroundPadding), scaleFactor)
        outlineWidth == QMul(QInt(settings.textOutlineWidth), scaleFactor)
        lineHeight == textSize
        lines == split(cut.label)
        lineWidths == [i \in 1 .. Len(lines) |-> widthOfTextAtSize(lines[i], textSize)]
        maxTextWidth == QMax(lineWidths)
        bw == boxWidth(maxTextWidth, padding)
        bh == boxHeight(Len(lines), lineHeight, padding)
        top == boxTopY(height, cut.y)
        rx == rectX(cut.x, width, bw)
        ry == rectY(top, bh)
        texts == [i \in 1 .. Len(lines) |->
                    Op("drawText", k, lines[i],
                       <<lineX(rx, padding, maxTextWidth, lineWidths[i]),
                         lineY(top, padding, textSize, i - 1, lineHeight),
                         textSize>>, "black")]
    IN  <<PushGraphicsState(k), BeginMarkedContent(k)>>
          \o drawBackground(settings.useWhiteBackground, k, rx, ry, bw, bh)
          \o (IF settings.textOutlineWidth > 0
              THEN <<PushGraphicsState(k),
                     Op("Tr", k, <<>>, <<QInt(3)>>, ""),
                     Op("Tr", k, <<>>, <<QInt(1)>>, ""),
                     Op("w", k, <<>>, <<QMul(outlineWidth, QInt(2))>>, ""),
                     Op("RG", k, <<>>, <<QInt(1), QInt(1), QInt(1)>>, ""),
                     Op("j", k, <<>>, <<QInt(1)>>, ""),
                     Op("J", k, <<>>, <<QInt(1)>>, "")>>
                   \o texts \o <<PopGraphicsState(k)>>
              ELSE <<>>)
          \o texts
          \o <<EndMarkedContent(k), PopGraphicsState(k)>>

\* the calls drawCutsOnPage makes on a page of the given size
drawCutsOnPage(width, height, pageIndex, cuts, settings, scaleFactor) ==
    LET ks == pageCuts(cuts, pageIndex)
    IN  Flatten([j \in 1 .. Len(ks) |->
                    DrawCut(width, height, cuts[ks[j]], ks[j], settings, scaleFactor)])

-----------------------------------------------------------------------------
(* imageExportService.ts: the drawing of the cuts of one image             *)

\* lines 96, 97
canvasBoxWidth(maxTextWidth, padding) == QAdd(maxTextWidth, QInt(padding * 2))
canvasBoxHeight(lineCount, lineHeight, padding) ==
    QAdd(QMul(QInt(lineCount), lineHeight), QInt(padding * 2))

\* lines 100-102
canvasBoxTopY(height, y) == QMul(y, height)
canvasRectX(x, width, bw) == QSub(QMul(x, width), QDiv(bw, QInt(2)))
canvasRectY(top) == top

\* lines 113-115
canvasLineX(rx, padding, maxTextWidth, lw) ==
    QAdd(QAdd(rx, QInt(padding)), QDiv(QSub(maxTextWidth, lw), QInt(2)))
canvasLineY(ry, padding, lineIndex, lineHeight) ==
    QAdd(QAdd(ry, QInt(padding)), QMul(QInt(lineIndex), lineHeight))

\* the calls of one iteration of the loop of lines 82-130
CanvasDrawCut(width, height, cut, k, settings) ==
    LET textSize == QInt(settings.fontSize)
        lines == split(cut.label)
        lineMetrics == [i \in 1 .. Len(lines) |-> measureText(lines[i], textSize)]
        maxTextWidth ==
            IF QLess(QInt(0), QMax(lineMetrics)) THEN QMax(lineMetrics) ELSE QInt(0)
        padding == settings.backgroundPadding
        lineHeight == textSize
        bw == canvasBoxWidth(maxTextWidth, padding)
        bh == canvasBoxHeight(Len(lines), lineHeight, padding)
        top == canvasBoxTopY(height, cut.y)
        rx == canvasRectX(cut.x, width, bw)
        ry == canvasRectY(top)
        LineOps(i) ==
            LET lx == canvasLineX(rx, padding, maxTextWidth, lineMetrics[i])
                ly == canvasLineY(ry, padding, i - 1, lineHeight)
            IN  (IF settings.textOutlineWidth > 0
                 THEN <<Op("lineWidth", k, <<>>, <<QInt(settings.textOutlineWidth * 2)>>, ""),
                        Op("strokeStyle", k, <<>>, <<>>, "white"),
                        Op("lineJoin", k, <<>>, <<>>, "round"),
                        Op("lineCap", k, <<>>, <<>>, "round"),
                        Op("strokeText", k, lines[i], <<lx, ly>>, "white")>>
                 ELSE <<>>)
                \o <<Op("fillStyle", k, <<>>, <<>>, "black"),
                     Op("fillText", k, lines[i], <<lx, ly>>, "black")>>
    IN  (IF settings.useWhiteBackground
         THEN <<Op("fillStyle", k, <<>>, <<>>, "white"),
                Op("fillRect", k, <<>>, <<rx, ry, bw, bh>>, "white")>>
         ELSE <<>>)
          \o Flatten([i \in 1 .. Len(lines) |-> LineOps(i)])

\* lines 71-130
canvasDrawCuts(width, height, i, cuts, settings) ==
    LET ks == pageCuts(cuts, i)
    IN  Flatten([j \in 1 .. Len(ks) |->
                    CanvasDrawCut(width, height, cuts[ks[j]], ks[j], settings)])

-----------------------------------------------------------------------------
(* pdfService.ts: normalizeDpi, isSameDpi                                  *)

DEFAULT_DPI == 96
POINTS_PER_INCH == 72

\* Math.round(v * 100) of a value in model units: the resolution in 1/100 DPI
Hundredths(v) == (v + 50) \div 100

\* lines 161-164; the result k / 100 is held as the model value k * 100
normalizeDpi(dpi) == Dpi(Hundredths(dpi.x) * 100, Hundredths(dpi.y) * 100)

RECURSIVE Pow2(_)
Pow2(n) == IF n = 0 THEN 1 ELSE 2 * Pow2(n - 1)

RECURSIVE Pow2Mod100(_)
Pow2Mod100(n) == IF n = 0 THEN 1 ELSE (2 * Pow2Mod100(n - 1)) % 100

\* the double nearest to k / 100 (k >= 1) lies in [2^e, 2^(e+1)), e >= -7
RECURSIVE BinadeFrom(_, _)
BinadeFrom(k, e) == IF Pow2(e + 8) * 100 <= k * 128 THEN BinadeFrom(k, e + 1) ELSE e

Binade(k) == BinadeFrom(k, 0 - 7)

\* (double nearest to k / 100) - k / 100, in hundredths of the unit in the
\* last place 2^(e-52): the remainder of k * 2^(52-e) by 100, rounded to nearest
FloatErr(k) ==
    IF k = 0 THEN 0
    ELSE LET r == ((k % 100) * Pow2Mod100(52 - Binade(k))) % 100
         IN  IF r < 50 THEN 0 - r ELSE 100 - r

\* Math.abs(a - b) <= DPI_TOLERANCE on one axis, a and b the doubles nearest to
\* ka / 100 and kb / 100: the subtraction of neighbours is exact, so values
\* 0.01 apart compare by their rounding errors and that of the double 0.01
SameAxis(ka, kb) ==
    LET hi == IF ka < kb THEN kb ELSE ka
        lo == IF ka < kb THEN ka ELSE kb
    IN  IF hi = lo THEN TRUE
        ELSE IF hi - lo >= 2 THEN FALSE
        ELSE IF lo = 0 THEN TRUE
        ELSE FloatErr(hi) * Pow2(Binade(hi) + 7) - FloatErr(lo) * Pow2(Binade(lo) + 7)
                <= FloatErr(1)

\* lines 166-167
isSameDpi(a, b) ==
    /\ SameAxis(a.x \div 100, b.x \div 100)
    /\ SameAxis(a.y \div 100, b.y \div 100)

-----------------------------------------------------------------------------
(* Files of an export                                                      *)

\* a File: name, MIME type, extension class of the name ("jpg" for .jpg and
\* .jpeg), bytes, and the pixel size the image decodes to with its
\* orientation applied (0 by 0: the bytes hold no image a decoder accepts)
ImageFile(name, mime, ext, bytes, w, h) ==
    [name |-> name, mime |-> mime, ext |-> ext, bytes |-> bytes, w |-> w, h |-> h]

Decodes(file) == file.w > 0 /\ file.h > 0

Jpeg(name, segs, w, h) ==
    ImageFile(name, "image/jpeg", "jpg", SoiBytes \o segs \o DqtSeg \o EoiBytes, w, h)

Png(name, chunks, w, h) ==
    ImageFile(name, "image/png", "png",
              PngSig \o IhdrChunk \o chunks \o IdatChunk \o IendChunk, w, h)

Catalogue ==
    {Jpeg("e300.jpg", ExifSeg(1, 30000, 30000, 100, 2), 1000, 800),
     Jpeg("e300b.jpg", ExifSeg(1, 300, 300, 1, 2), 500, 400),
     Jpeg("hi.jpg", ExifSeg(1, 30001, 30001, 100, 2), 1000, 800),
     Jpeg("lo.jpg", ExifSeg(1, 29999, 29999, 100, 2), 1000, 800),
     Jpeg("e150.jpg", ExifSeg(1, 150, 150, 1, 2), 1000, 800),
     Jpeg("rot.jpg", ExifSeg(6, 300, 150, 1, 2), 800, 1000),
     Jpeg("tiny.jpg", ExifSeg(1, 1, 1, 1000, 2), 1000, 800),
     Jpeg("j300.jpg", JfifSeg(1, 300, 300), 1000, 800),
     Jpeg("j300b.jpg", JfifSeg(1, 300, 300), 500, 400),
     Jpeg("none.jpg", <<>>, 1000, 800),
     Png("p300.png", PhysChunkOf(11811, 11811, 1), 1000, 800),
     Png("none.png", <<>>, 640, 480),
     ImageFile("cut.jpg", "image/jpeg", "jpg", <<255>>, 0, 0),
     ImageFile("x.gif", "image/gif", "gif", <<71, 73, 70>>, 100, 100)}

FileNamed(name) == CHOOSE f \in Catalogue : f.name = name

\* sequences without repetition of at most n of the names (the files of one
\* folder have distinct names)
RECURSIVE Batches(_, _)
Batches(names, n) ==
    IF n = 0 THEN {<<>>}
    ELSE LET shorter == Batches(names, n - 1)
         IN  shorter \cup
             UNION { { Append(b, f) : f \in names \ { b[i] : i \in 1 .. Len(b) } } :
                     b \in { s \in shorter : Len(s) = n - 1 } }

\* imageProcessing.getExifOrientation (spec 4.2): the orientation of the Exif
\* block, null (0) when there is none or the buffer does not parse
getExifOrientation(b, type) ==
    LET r == IF type = "jpeg" THEN scanJpegMetadata(b) ELSE scanPngMetadata(b)
    IN  IF r.st = "ok" THEN r.orientation ELSE 0

\* canvas.toBlob: the encoded canvas, as browsers write it
CanvasBlob(isPng) ==
    IF isPng THEN PngSig \o IhdrChunk \o IdatChunk \o IendChunk
    ELSE SoiBytes \o JfifSeg(0, 1, 1) \o DqtSeg \o EoiBytes

-----------------------------------------------------------------------------
(* useCuts.ts: the marks of the document, their history and the selection. *)
(* The state of the hook is a record s: cuts, history, historyIndex,       *)
(* selectedCutId, baseState (baseStateRef.current) and numbering (the      *)
(* numberingState of the caller, which setNumberingState writes and        *)
(* numberingRef.current reads).  null is NoId for an id and <<>> for a     *)
(* branch character.                                                       *)

HISTORY_LIMIT == 100

NoId == ""

NumberingState(nextNumber, branchChar) ==
    [nextNumber |-> nextNumber, branchChar |-> branchChar]

HistoryEntry(cuts, numbering) == [cuts |-> cuts, numbering |-> numbering]

\* types.ts: a Cut with its isBranch flag
CutMark(id, pageIndex, x, y, label, isBranch) ==
    [id |-> id, pageIndex |-> pageIndex, x |-> x, y |-> y, label |-> label,
     isBranch |-> isBranch]

\* Number.prototype.toString of a number >= 0
RECURSIVE toString(_)
toString(number) ==
    LET digit(d) == <<"0", "1", "2", "3", "4", "5", "6", "7", "8", "9">>[d + 1]
    IN  IF number < 10 THEN <<digit(number)>>
        ELSE toString(number \div 10) \o <<digit(number % 10)>>

RECURSIVE padStart(_, _, _)
padStart(str, targetLength, ch) ==
    IF Len(str) >= targetLength THEN str ELSE padStart(<<ch>> \o str, targetLength, ch)

formatNumberLabel(number, minDigits) == padStart(toString(number), minDigits, "0")

buildLabel(numbering, minDigits) ==
    IF numbering.branchChar # <<>>
    THEN formatNumberLabel(numbering.nextNumber, minDigits) \o <<NL>> \o numbering.branchChar
    ELSE formatNumberLabel(numbering.nextNumber, minDigits)

\* the characters of code 65 .. 91
CharsFromA ==
    <<"A", "B", "C", "D", "E", "F", "G", "H", "I", "J", "K", "L", "M", "N", "O", "P",
      "Q", "R", "S", "T", "U", "V", "W", "X", "Y", "Z", "[">>

\* String.fromCharCode(ch.charCodeAt(0) + 1) for a character before '['
nextCharOf(ch) ==
    CharsFromA[(CHOOSE i \in 1 .. Len(CharsFromA) : CharsFromA[i] = ch) + 1]

advanceNumbering(numbering, autoIncrement) ==
    IF ~autoIncrement THEN numbering
    ELSE IF numbering.branchChar # <<>>
    THEN NumberingState(numbering.nextNumber, <<nextCharOf(numbering.branchChar[1])>>)
    ELSE NumberingState(numbering.nextNumber + 1, <<>>)

\* String.prototype.localeCompare(b) < 0 on ids of one lower-case letter
IdBefore(a, b) ==
    LET letters == <<"a", "b", "c", "d", "e", "f">>
        rank(id) == CHOOSE i \in 1 .. Len(letters) : letters[i] = id
    IN  rank(a) < rank(b)

\* sortCutsForRenumber(a, b) < 0
sortCutsForRenumber(a, b) ==
    IF a.pageIndex # b.pageIndex THEN a.pageIndex < b.pageIndex
    ELSE IF a.y # b.y THEN QLess(a.y, b.y)
    ELSE IF a.x # b.x THEN QLess(a.x, b.x)
    ELSE IdBefore(a.id, b.id)

\* [...cuts].sort(sortCutsForRenumber)
RECURSIVE SortedCuts(_)
SortedCuts(cuts) ==
    IF cuts = <<>> THEN <<>>
    ELSE LET first == CHOOSE i \in 1 .. Len(cuts) :
                          \A j \in 1 .. Len(cuts) :
                              j = i \/ sortCutsForRenumber(cuts[i], cuts[j])
                                    \/ (~sortCutsForRenumber(cuts[j], cuts[i]) /\ i < j)
             rest == [k \in 1 .. Len(cuts) - 1 |-> IF k < first THEN cuts[k] ELSE cuts[k + 1]]
         IN  <<cuts[first]>> \o SortedCuts(rest)

\* every entry kept, those after historyIndex too
newHistoryKeepingAll(history, historyIndex, entry) == Append(history, entry)

\* lines 75-79 and 91-95: the entries up to historyIndex and the new one
newHistoryOf(history, historyIndex, entry) ==
    Append(SubSeq(history, 1, historyIndex + 1), entry)

\* lines 80, 96
overflowOf(newHistory) ==
    IF Len(newHistory) - HISTORY_LIMIT > 0 THEN Len(newHistory) - HISTORY_LIMIT ELSE 0

\* nothing discarded
trimmedHistoryUntrimmed(newHistory) == newHistory

\* lines 81, 97
trimmedHistoryOf(newHistory) ==
    IF overflowOf(newHistory) > 0
    THEN SubSeq(newHistory, overflowOf(newHistory) + 1, Len(newHistory))
    ELSE newHistory

\* lines 82-84, 98-100
baseStateAfter(s, newHistory) ==
    IF overflowOf(newHistory) > 0 THEN newHistory[overflowOf(newHistory)] ELSE s.baseState

\* pushHistory as the render that owns history and historyIndex made it
pushHistory(s, history, historyIndex, newCuts) ==
    LET newHistory == newHistoryOf(history, historyIndex, HistoryEntry(newCuts, s.numbering))
    IN  [s EXCEPT !.baseState = baseStateAfter(s, newHistory),
                  !.history = trimmedHistoryOf(newHistory),
                  !.historyIndex = Len(trimmedHistoryOf(newHistory)) - 1,
                  !.cuts = newCuts]

pushHistoryWithNumbering(s, history, historyIndex, newCuts, nextNumbering) ==
    LET newHistory == newHistoryOf(history, historyIndex, HistoryEntry(newCuts, nextNumbering))
    IN  [s EXCEPT !.baseState = baseStateAfter(s, newHistory),
                  !.history = trimmedHistoryOf(newHistory),
                  !.historyIndex = Len(trimmedHistoryOf(newHistory)) - 1,
                  !.cuts = newCuts,
                  !.numbering = nextNumbering]

\* always back to the base state
undoToBase(s) ==
    IF s.historyIndex >= 0
    THEN [s EXCEPT !.historyIndex = -1,
                   !.cuts = s.baseState.cuts,
                   !.numbering = s.baseState.numbering]
    ELSE s

undo(s) ==
    IF s.historyIndex > 0
    THEN [s EXCEPT !.historyIndex = s.historyIndex - 1,
                   !.cuts = s.history[s.historyIndex].cuts,
                   !.numbering = s.history[s.historyIndex].numbering]
    ELSE IF s.historyIndex = 0
    THEN [s EXCEPT !.historyIndex = -1,
                   !.cuts = s.baseState.cuts,
                   !.numbering = s.baseState.numbering]
    ELSE s

redo(s) ==
    IF s.historyIndex < Len(s.history) - 1
    THEN [s EXCEPT !.historyIndex = s.historyIndex + 1,
                   !.cuts = s.history[s.historyIndex + 2].cuts,
                   !.numbering = s.history[s.historyIndex + 2].numbering]
    ELSE s

resetCuts(s) ==
    [s EXCEPT !.cuts = <<>>,
              !.history = <<>>,
              !.historyIndex = -1,
              !.selectedCutId = NoId,
              !.baseState = HistoryEntry(<<>>, s.numbering)]

\* nextNumbering is <<>> when the argument is left out
addCut(s, newCut, nextNumbering) ==
    IF nextNumbering # <<>>
    THEN pushHistoryWithNumbering(s, s.history, s.historyIndex,
                                  Append(s.cuts, newCut), nextNumbering[1])
    ELSE pushHistory(s, s.history, s.historyIndex, Append(s.cuts, newCut))

\* prev.map(c => c.id === id ? { ...c, x, y } : c)
RECURSIVE MovedCuts(_, _, _, _)
MovedCuts(cuts, id, x, y) ==
    IF cuts = <<>> THEN <<>>
    ELSE <<IF Head(cuts).id = id THEN [Head(cuts) EXCEPT !.x = x, !.y = y] ELSE Head(cuts)>>
            \o MovedCuts(Tail(cuts), id, x, y)

updateCutPosition(s, id, x, y) == [s EXCEPT !.cuts = MovedCuts(s.cuts, id, x, y)]

\* the callback handed to the marker at mousedown: pushHistory of the render
\* of that moment, cutsRef.current of now
handleCutDragEnd(s, history, historyIndex) == pushHistory(s, history, historyIndex, s.cuts)

\* Array.prototype.filter(c => c.id !== id)
RECURSIVE WithoutId(_, _)
WithoutId(cuts, id) ==
    IF cuts = <<>> THEN <<>>
    ELSE IF Head(cuts).id = id THEN WithoutId(Tail(cuts), id)
    ELSE <<Head(cuts)>> \o WithoutId(Tail(cuts), id)

deleteCut(s, id) ==
    LET pushed == pushHistory(s, s.history, s.historyIndex, WithoutId(s.cuts, id))
    IN  IF s.selectedCutId = id THEN [pushed EXCEPT !.selectedCutId = NoId] ELSE pushed

setNumberingStateWithHistory(s, nextNumbering) ==
    IF s.numbering.nextNumber = nextNumbering.nextNumber
            /\ s.numbering.branchChar = nextNumbering.branchChar
    THEN s
    ELSE pushHistoryWithNumbering(s, s.history, s.historyIndex, s.cuts, nextNumbering)

\* currentNumbering after k passes of the loop of lines 187-194
RECURSIVE AdvancedTimes(_, _, _)
AdvancedTimes(numbering, autoIncrement, k) ==
    IF k = 0 THEN numbering
    ELSE advanceNumbering(AdvancedTimes(numbering, autoIncrement, k - 1), autoIncrement)

renumberFromCut(s, startCutId, startNumbering, minDigits, autoIncrement) ==
    LET sortedCuts == SortedCuts(s.cuts)
        found == { i \in 1 .. Len(sortedCuts) : sortedCuts[i].id = startCutId }
        startIndex == CHOOSE i \in found : \A j \in found : i <= j
        place(id) == CHOOSE i \in 1 .. Len(sortedCuts) : sortedCuts[i].id = id
        updated(cut) ==
            LET numbering == AdvancedTimes(startNumbering, autoIncrement,
                                           place(cut.id) - startIndex)
            IN  [cut EXCEPT !.label = buildLabel(numbering, minDigits),
                            !.isBranch = numbering.branchChar # <<>>]
        newCuts == [i \in 1 .. Len(s.cuts) |->
                        IF place(s.cuts[i].id) >= startIndex THEN updated(s.cuts[i])
                        ELSE s.cuts[i]]
    IN  IF found = {} THEN s
        ELSE pushHistoryWithNumbering(s, s.history, s.historyIndex, newCuts,
                 AdvancedTimes(startNumbering, autoIncrement,
                               Len(sortedCuts) - startIndex + 1))

setSelectedCutId(s, id) == [s EXCEPT !.selectedCutId = id]

\* App (part_007 lines 208-222): the new mark takes the next label, the
\* numbering moves on
createCutAt(s, id, pageIndex, x, y, minDigits, autoIncrement) ==
    addCut(s,
           CutMark(id, pageIndex, x, y, buildLabel(s.numbering, minDigits),
                   s.numbering.branchChar # <<>>),
           <<advanceNumbering(s.numbering, autoIncrement)>>)

\* the state of the hook after its first render
InitialNumbering == NumberingState(1, <<>>)

InitialHook ==
    [cuts |-> <<>>, history |-> <<>>, historyIndex |-> -1, selectedCutId |-> NoId,
     baseState |-> HistoryEntry(<<>>, InitialNumbering), numbering |-> InitialNumbering]

\* no marker is being dragged
NoDrag ==
    [id |-> NoId, history |-> <<>>, historyIndex |-> -1, cuts |-> <<>>, alone |-> TRUE]

\* what is remembered of a handler that ran: its name, whether it pushed an
\* entry, whether it ran with no drag under way (for handleCutDragEnd:
\* whether no other handler ran during its drag), and the cuts, numbering
\* and historyIndex it started from (for handleCutDragEnd: those of the
\* mousedown)
Ran(kind, pushed, quiet, cuts, numbering, historyIndex) ==
    [kind |-> kind, pushed |-> pushed, quiet |-> quiet, cuts |-> cuts,
     numbering |-> numbering, historyIndex |-> historyIndex]

NothingRan == Ran("none", FALSE, TRUE, <<>>, InitialNumbering, -1)

Hook ==
    [cuts |-> hCuts, history |-> hHistory, historyIndex |-> hHistoryIndex,
     selectedCutId |-> hSelectedCutId, baseState |-> hBaseState, numbering |-> hNumbering]

HookIs(s) ==
    /\ hCuts = s.cuts
    /\ hHistory = s.history
    /\ hHistoryIndex = s.historyIndex
    /\ hSelectedCutId = s.selectedCutId
    /\ hBaseState = s.baseState
    /\ hNumbering = s.numbering

\* the hook is mounted, nothing has been done
HistoryIdle ==
    /\ HookIs(InitialHook)
    /\ hDrag = NoDrag
    /\ hMade = 0
    /\ hSteps = 0
    /\ hPrev = NothingRan
    /\ hPrior = NothingRan

\* most handler calls of one run, most marks made in it
MaxSteps == 4
MaxMade == 2

\* crypto.randomUUID(): an id no mark has had
FreshId == <<"a", "b", "c", "d", "e", "f">>[hMade + 1]

IdsOf(cuts) == { cuts[i].id : i \in 1 .. Len(cuts) }

\* the state updates of a handler are rendered
HookBecomes(s) ==
    /\ hCuts' = s.cuts
    /\ hHistory' = s.history
    /\ hHistoryIndex' = s.historyIndex
    /\ hSelectedCutId' = s.selectedCutId
    /\ hBaseState' = s.baseState
    /\ hNumbering' = s.numbering

\* a handler other than those of the drag ran to the state s
HandlerRan(kind, pushed, s) ==
    /\ hSteps < MaxSteps
    /\ hSteps' = hSteps + 1
    /\ HookBecomes(s)
    /\ hDrag' = IF hDrag.id = NoId THEN hDrag ELSE [hDrag EXCEPT !.alone = FALSE]
    /\ hPrev' = Ran(kind, pushed, hDrag.id = NoId, hCuts, hNumbering, hHistoryIndex)
    /\ hPrior' = hPrev
    /\ UNCHANGED nonHistoryVars

-----------------------------------------------------------------------------
(* useDocumentViewer (useKeyboardShortcuts.ts): the document shown, its    *)
(* page and the object URL of the image of the page.  The state of the     *)
(* hook is a record v: docType, pdfFile, imageFiles, currentImageUrl,      *)
(* numPages, currentPage, with the instances of the image effect           *)
(* (effects), the URLs made and revoked, and the PDF whose page count the  *)
(* Document component has still to report (loading).  A PDF file is its    *)
(* number of pages, an image file is its name, a number.                   *)

NoPdf == 0

NoFile == 0

\* an object URL: the file it shows and which call of createObjectURL made it
ObjectUrl(file, serial) == [file |-> file, serial |-> serial]

NoUrl == ObjectUrl(NoFile, 0)

\* one run of the effect: the file loadImage reads, whether loadImage is at
\* an await or has returned, and the isCancelled and urlToRevoke of the run
EffectInstance(file, pc) ==
    [file |-> file, pc |-> pc, isCancelled |-> FALSE, urlToRevoke |-> NoUrl]

\* a.name.localeCompare(b.name, undefined, {numeric: true}) of names that
\* are numbers
RECURSIVE InsertedByName(_, _)
InsertedByName(sorted, file) ==
    IF sorted = <<>> THEN <<file>>
    ELSE IF file < Head(sorted) THEN <<file>> \o sorted
    ELSE <<Head(sorted)>> \o InsertedByName(Tail(sorted), file)

RECURSIVE SortedByName(_)
SortedByName(files) ==
    IF files = <<>> THEN <<>>
    ELSE InsertedByName(SortedByName(Tail(files)), Head(files))

\* Math.max(1, Math.min(numPages || 1, next))
clampPage(numPages, next) ==
    LET most == IF numPages = 0 THEN 1 ELSE numPages
        least == IF most < next THEN most ELSE next
    IN  IF least < 1 THEN 1 ELSE least

\* loadImage up to its first await: it returns at once without a file to show
loadImageStarted(docType, imageFiles, currentPage) ==
    IF docType # "images" \/ Len(imageFiles) = 0 \/ currentPage < 1
    THEN EffectInstance(NoFile, "returned")
    ELSE IF currentPage > Len(imageFiles)
    THEN EffectInstance(NoFile, "returned")
    ELSE EffectInstance(imageFiles[currentPage], "awaiting")

\* a dependency of the effect has changed: the cleanup of the last run, then
\* a new run
effectRerun(v) ==
    LET n == Len(v.effects)
        started == loadImageStarted(v.docType, v.imageFiles, v.currentPage)
    IN  [v EXCEPT
            !.effects = Append([v.effects EXCEPT ![n].isCancelled = TRUE], started),
            !.revoked = IF v.effects[n].urlToRevoke # NoUrl
                        THEN @ \cup {v.effects[n].urlToRevoke}
                        ELSE @,
            !.currentImageUrl = IF started.pc = "returned" THEN NoUrl ELSE @]

\* the isCancelled check is left out
loadImageResumedUnchecked(v, i, fulfilled) ==
    LET url == ObjectUrl(v.effects[i].file, Cardinality(v.created) + 1)
    IN  IF fulfilled
        THEN [v EXCEPT !.effects[i].pc = "returned",
                       !.effects[i].urlToRevoke = url,
                       !.created = @ \cup {url},
                       !.currentImageUrl = url]
        ELSE [v EXCEPT !.effects[i].pc = "returned", !.currentImageUrl = NoUrl]

\* loadImage of run i after its awaits: the promises were fulfilled and the
\* URL is made, or one was rejected and the catch clause runs
loadImageResumed(v, i, fulfilled) ==
    LET url == ObjectUrl(v.effects[i].file, Cardinality(v.created) + 1)
    IN  IF fulfilled
        THEN IF v.effects[i].isCancelled
             THEN [v EXCEPT !.effects[i].pc = "returned",
                            !.created = @ \cup {url},
                            !.revoked = @ \cup {url}]
             ELSE [v EXCEPT !.effects[i].pc = "returned",
                            !.effects[i].urlToRevoke = url,
                            !.created = @ \cup {url},
                            !.currentImageUrl = url]
        ELSE IF v.effects[i].isCancelled
             THEN [v EXCEPT !.effects[i].pc = "returned"]
             ELSE [v EXCEPT !.effects[i].pc = "returned", !.currentImageUrl = NoUrl]

\* imageFiles is a new array; the Document component starts to load the file
loadPdf(v, file) ==
    effectRerun([v EXCEPT !.pdfFile = file,
                          !.imageFiles = <<>>,
                          !.docType = "pdf",
                          !.currentPage = 1,
                          !.loading = file])

\* the Document component is no longer rendered
loadImages(v, files) ==
    effectRerun([v EXCEPT !.imageFiles = SortedByName(files),
                          !.pdfFile = NoPdf,
                          !.docType = "images",
                          !.numPages = Len(SortedByName(files)),
                          !.currentPage = 1,
                          !.loading = NoPdf])

\* setPage with an updater function: by is what the updater adds to prev
setPage(v, by) ==
    LET next == clampPage(v.numPages, v.currentPage + by)
    IN  IF next = v.currentPage THEN v
        ELSE effectRerun([v EXCEPT !.currentPage = next])

setNumPages(v, numPages) == [v EXCEPT !.numPages = numPages]

\* the state of the hook after its first render and the first run of the effect
InitialViewer ==
    [docType |-> "none", pdfFile |-> NoPdf, imageFiles |-> <<>>,
     currentImageUrl |-> NoUrl, numPages |-> 0, currentPage |-> 1,
     effects |-> <<EffectInstance(NoFile, "returned")>>,
     created |-> {}, revoked |-> {}, loading |-> NoPdf]

Viewer ==
    [docType |-> vDocType, pdfFile |-> vPdfFile, imageFiles |-> vImageFiles,
     currentImageUrl |-> vCurrentImageUrl, numPages |-> vNumPages,
     currentPage |-> vCurrentPage, effects |-> vEffects, created |-> vCreated,
     revoked |-> vRevoked, loading |-> vLoading]

ViewerIs(v) ==
    /\ vDocType = v.docType
    /\ vPdfFile = v.pdfFile
    /\ vImageFiles = v.imageFiles
    /\ vCurrentImageUrl = v.currentImageUrl
    /\ vNumPages = v.numPages
    /\ vCurrentPage = v.currentPage
    /\ vEffects = v.effects
    /\ vCreated = v.created
    /\ vRevoked = v.revoked
    /\ vLoading = v.loading

\* the viewer is mounted, no document is loaded
ViewerIdle == ViewerIs(InitialViewer) /\ vSteps = 0

ViewerBecomes(v) ==
    /\ vDocType' = v.docType
    /\ vPdfFile' = v.pdfFile
    /\ vImageFiles' = v.imageFiles
    /\ vCurrentImageUrl' = v.currentImageUrl
    /\ vNumPages' = v.numPages
    /\ vCurrentPage' = v.currentPage
    /\ vEffects' = v.effects
    /\ vCreated' = v.created
    /\ vRevoked' = v.revoked
    /\ vLoading' = v.loading

-----------------------------------------------------------------------------

(* The exports: saveMarkedPdf, saveImagesAsPdf (pdfService.ts) and         *)
(* exportImagesAsZip (imageExportService.ts), one loop iteration a step    *)

Cut(id, pageIndex, x, y, label) ==
    [id |-> id, pageIndex |-> pageIndex, x |-> x, y |-> y, label |-> label]

Settings(fontSize, useWhiteBackground, backgroundPadding, textOutlineWidth) ==
    [fontSize |-> fontSize, useWhiteBackground |-> useWhiteBackground,
     backgroundPadding |-> backgroundPadding, textOutlineWidth |-> textOutlineWidth]

\* constants.ts
DEFAULT_SETTINGS == Settings(12, FALSE, 4, 2)

\* no export in progress
ExportIdle ==
    /\ xOp = "none"
    /\ xFiles = <<>>
    /\ xPdf = <<>>
    /\ xCuts = <<>>
    /\ xSettings = DEFAULT_SETTINGS
    /\ xPc = "idle"
    /\ xErr = "none"
    /\ xBase = NullDpi
    /\ xMixed = FALSE
    /\ xScan = 0
    /\ xEff = NullDpi
    /\ xI = 0
    /\ xDoc = <<>>
    /\ xZip = <<>>
    /\ xProgress = <<>>
    /\ xOut = "none"

\* the call of an export with its arguments
ExportCall(ops, batches, pdfs, cutLists, settingsSet) ==
    /\ xOp \in ops
    /\ xFiles \in (IF xOp = "saveMarkedPdf" THEN {<<>>} ELSE batches)
    /\ xPdf \in (IF xOp = "saveMarkedPdf" THEN pdfs ELSE {<<>>})
    /\ xCuts \in cutLists
    /\ xSettings \in settingsSet
    /\ xPc = (IF xOp = "saveImagesAsPdf" THEN "scan" ELSE "pages")
    /\ xErr = "none"
    /\ xBase = NullDpi
    /\ xMixed = FALSE
    /\ xScan = 0
    /\ xEff = NullDpi
    /\ xI = 0
    /\ xDoc = <<>>
    /\ xZip = <<>>
    /\ xProgress = <<>>
    /\ xOut = "none"

\* the failure is swallowed and the export goes on
RejectSwallowed(err) ==
    /\ xPc' = xPc
    /\ xErr' = err

\* the promise of the export rejects
Reject(err) ==
    /\ xPc' = "thrown"
    /\ xErr' = err

\* saveImagesAsPdf lines 371-387: one iteration of the reconcile loop
SipScan ==
    /\ xOp = "saveImagesAsPdf"
    /\ xPc = "scan"
    /\ ~xMixed
    /\ xScan < Len(xFiles)
    /\ \E scanned \in {scanImageMetadata(FileNamed(xFiles[xScan + 1]))} :
       \E adjusted \in {adjustDpiForOrientation(scanned.dpi, scanned.orientation)} :
       \E normalized \in {normalizeDpi(adjusted)} :
           IF scanned.st = "throw"
           THEN Reject("RangeError") /\ UNCHANGED <<xBase, xMixed, xScan>>
           ELSE /\ xScan' = xScan + 1
                /\ xMixed' = \/ adjusted.st # "dpi"
                             \/ adjusted.x <= 0
                             \/ adjusted.y <= 0
                             \/ xBase.st = "dpi" /\ ~isSameDpi(xBase, normalized)
                /\ xBase' = IF ~xMixed' /\ xBase.st # "dpi" THEN normalized ELSE xBase
                /\ UNCHANGED <<xPc, xErr>>
    /\ UNCHANGED <<xOp, xFiles, xPdf, xCuts, xSettings, xEff, xI, xDoc, xZip, xProgress, xOut>>
    /\ UNCHANGED nonExportVars

\* a read of the file's bytes by the scan rejects (lines 236, 298)
SipScanReadFails ==
    /\ xOp = "saveImagesAsPdf"
    /\ xPc = "scan"
    /\ ~xMixed
    /\ xScan < Len(xFiles)
    /\ ImgTypeOf(FileNamed(xFiles[xScan + 1])) # "none"
    /\ Reject("read")
    /\ UNCHANGED <<xOp, xFiles, xPdf, xCuts, xSettings, xBase, xMixed, xScan, xEff, xI,
                   xDoc, xZip, xProgress, xOut>>
    /\ UNCHANGED nonExportVars

\* the loop is left; line 389
SipResolve ==
    /\ xOp = "saveImagesAsPdf"
    /\ xPc = "scan"
    /\ xMixed \/ xScan = Len(xFiles)
    /\ xEff' = IF xMixed \/ xBase.st # "dpi"
               THEN Dpi(DEFAULT_DPI * DpiUnits, DEFAULT_DPI * DpiUnits)
               ELSE xBase
    /\ xPc' = "pages"
    /\ UNCHANGED <<xOp, xFiles, xPdf, xCuts, xSettings, xErr, xBase, xMixed, xScan, xI,
                   xDoc, xZip, xProgress, xOut>>
    /\ UNCHANGED nonExportVars

\* a page of pdfDoc: the index of its source, its size, the scale factor its
\* cuts were drawn with, the calls made on it
Page(src, width, height, scaleFactor, ops) ==
    [src |-> src, width |-> width, height |-> height, scaleFactor |-> scaleFactor,
     ops |-> ops]

\* the new page put in front of the pages the document has
addPageFirst(doc, page) == <<page>> \o doc

\* pdfDoc.addPage (line 443), pdfDoc.getPages (line 140): the pages in the
\* order they are added
addPage(doc, page) == Append(doc, page)

\* the page at the pixel size of the image, the cuts unscaled
PageGeometryUnscaled(w, h, dpi) ==
    [drawWidth |-> QInt(w), drawHeight |-> QInt(h), scaleFactor |-> QInt(1)]

\* lines 423-440: drawWidth, drawHeight, scaleFactor
PageGeometry(w, h, dpi) ==
    IF dpi.x > 0 /\ dpi.y > 0
    THEN [drawWidth |-> QMul(QInt(w), QDiv(QInt(POINTS_PER_INCH), DpiQ(dpi.x))),
          drawHeight |-> QMul(QInt(h), QDiv(QInt(POINTS_PER_INCH), DpiQ(dpi.y))),
          scaleFactor |-> QDiv(QInt(POINTS_PER_INCH), DpiQ(dpi.y))]
    ELSE [drawWidth |-> QInt(w), drawHeight |-> QInt(h), scaleFactor |-> QInt(1)]

\* saveImagesAsPdf lines 391-455: one iteration of the page loop
SipPage ==
    /\ xOp = "saveImagesAsPdf"
    /\ xPc = "pages"
    /\ xI < Len(xFiles)
    /\ \E file \in {FileNamed(xFiles[xI + 1])} :
       LET g == PageGeometry(file.w, file.h, xEff)
       IN  IF ImgTypeOf(file) = "none"
           THEN xI' = xI + 1 /\ UNCHANGED <<xDoc, xPc, xErr>>
           ELSE IF ~Decodes(file)
           THEN Reject("decode") /\ UNCHANGED <<xDoc, xI>>
           ELSE /\ xDoc' = addPage(xDoc,
                          Page(xI, g.drawWidth, g.drawHeight, g.scaleFactor,
                               <<Op("drawImage", 0, <<>>,
                                    <<QInt(0), QInt(0), g.drawWidth, g.drawHeight>>, "")>>
                                 \o drawCutsOnPage(g.drawWidth, g.drawHeight, xI, xCuts,
                                                   xSettings, g.scaleFactor)))
                /\ xI' = xI + 1
                /\ UNCHANGED <<xPc, xErr>>
    /\ UNCHANGED <<xOp, xFiles, xPdf, xCuts, xSettings, xBase, xMixed, xScan,
                   xEff, xZip, xProgress, xOut>>
    /\ UNCHANGED nonExportVars

\* file.arrayBuffer() of line 393 rejects
SipPageReadFails ==
    /\ xOp = "saveImagesAsPdf"
    /\ xPc = "pages"
    /\ xI < Len(xFiles)
    /\ Reject("read")
    /\ UNCHANGED <<xOp, xFiles, xPdf, xCuts, xSettings, xBase, xMixed, xScan, xEff, xI,
                   xDoc, xZip, xProgress, xOut>>
    /\ UNCHANGED nonExportVars

\* saveMarkedPdf lines 142-145: one iteration
SmpPage ==
    /\ xOp = "saveMarkedPdf"
    /\ xPc = "pages"
    /\ xI < Len(xPdf)
    /\ xDoc' = addPage(xDoc,
                 Page(xI, xPdf[xI + 1].width, xPdf[xI + 1].height, QInt(1),
                      drawCutsOnPage(xPdf[xI + 1].width, xPdf[xI + 1].height, xI, xCuts,
                                     xSettings, QInt(1))))
    /\ xI' = xI + 1
    /\ UNCHANGED <<xOp, xFiles, xPdf, xCuts, xSettings, xPc, xErr, xBase, xMixed, xScan,
                   xEff, xZip, xProgress, xOut>>
    /\ UNCHANGED nonExportVars

\* pdfDoc.save() of lines 147 and 457: the bytes are returned
PdfSave ==
    /\ xOp \in {"saveMarkedPdf", "saveImagesAsPdf"}
    /\ xPc = "pages"
    /\ xI = (IF xOp = "saveMarkedPdf" THEN Len(xPdf) ELSE Len(xFiles))
    /\ xOut' = "pdf"
    /\ xPc' = "done"
    /\ UNCHANGED <<xOp, xFiles, xPdf, xCuts, xSettings, xErr, xBase, xMixed, xScan, xEff,
                   xI, xDoc, xZip, xProgress>>
    /\ UNCHANGED nonExportVars

\* an entry of zip: the index of its source, its name, the canvas size, the
\* calls made on the canvas context, the bytes stored
Entry(src, name, width, height, ops, blob) ==
    [src |-> src, name |-> name, width |-> width, height |-> height, ops |-> ops,
     blob |-> blob]

\* a call of onProgress, with the number of entries zip held when it was made
Progress(current, total, stored) ==
    [current |-> current, total |-> total, stored |-> stored]

\* lines 146-148: the blob after the injection of the resolution
InjectDpi(blob, adjustedDpi, isPng) ==
    IF adjustedDpi.st = "dpi"
    THEN setBlobDpi(blob, adjustedDpi, IF isPng THEN "png" ELSE "jpeg")
    ELSE SameBlob(blob)

\* exportImagesAsZip lines 42-153: one iteration
ZipImage ==
    /\ xOp = "exportImagesAsZip"
    /\ xPc = "pages"
    /\ xI < Len(xFiles)
    /\ xProgress' = Append(xProgress, Progress(xI + 1, Len(xFiles), Len(xZip)))
    /\ \E file \in {FileNamed(xFiles[xI + 1])} :
       \E fileType \in {IF file.mime = "image/png" THEN "png" ELSE "jpeg"} :
       \E originalDpi \in {getImageResolution(file.bytes, fileType)} :
       \E orientation \in {getExifOrientation(file.bytes, fileType)} :
       \E adjustedDpi \in {adjustDpiForOrientation(originalDpi, orientation)} :
       \E isPng \in {file.mime = "image/png"} :
       \E blob \in {InjectDpi(CanvasBlob(isPng), adjustedDpi, isPng)} :
       \E ops \in {<<Op("drawImage", 0, <<>>, <<QInt(0), QInt(0)>>, "")>>
                      \o canvasDrawCuts(QInt(file.w), QInt(file.h), xI, xCuts, xSettings)} :
           IF ~Decodes(file)
           THEN Reject("decode") /\ UNCHANGED <<xI, xZip>>
           ELSE IF blob.st = "throw"
           THEN Reject("RangeError") /\ UNCHANGED <<xI, xZip>>
           ELSE /\ xZip' = Append(xZip, Entry(xI, file.name, file.w, file.h, ops, blob.bytes))
                /\ xI' = xI + 1
                /\ UNCHANGED <<xPc, xErr>>
    /\ UNCHANGED <<xOp, xFiles, xPdf, xCuts, xSettings, xBase, xMixed, xScan, xEff, xDoc,
                   xOut>>
    /\ UNCHANGED nonExportVars

\* file.arrayBuffer() of line 47 rejects; onProgress of line 44 was called
ZipReadFails ==
    /\ xOp = "exportImagesAsZip"
    /\ xPc = "pages"
    /\ xI < Len(xFiles)
    /\ xProgress' = Append(xProgress, Progress(xI + 1, Len(xFiles), Len(xZip)))
    /\ Reject("read")
    /\ UNCHANGED <<xOp, xFiles, xPdf, xCuts, xSettings, xBase, xMixed, xScan, xEff, xI,
                   xDoc, xZip, xOut>>
    /\ UNCHANGED nonExportVars

\* lines 156-157: the archive is generated and its download triggered
ZipSave ==
    /\ xOp = "exportImagesAsZip"
    /\ xPc = "pages"
    /\ xI = Len(xFiles)
    /\ xOut' = "download"
    /\ xPc' = "done"
    /\ UNCHANGED <<xOp, xFiles, xPdf, xCuts, xSettings, xErr, xBase, xMixed, xScan, xEff,
                   xI, xDoc, xZip, xProgress>>
    /\ UNCHANGED nonExportVars

ExportNext ==
    \/ SipScan
    \/ SipScanReadFails
    \/ SipResolve
    \/ SipPage
    \/ SipPageReadFails
    \/ SmpPage
    \/ PdfSave
    \/ ZipImage
    \/ ZipReadFails
    \/ ZipSave

\* a codec run, no export in progress
CodecStart == CodecInit /\ ExportIdle /\ CrcIdle /\ HistoryIdle /\ ViewerIdle

SpecCodec == CodecStart /\ [][CodecNext]_vars

-----------------------------------------------------------------------------
(* Specifications of the exports                                           *)

Half == QNorm(1, 2)
Tenth == QNorm(1, 10)

\* "001", "12", "001\nA", "7\nAB", "", "3\n"
Labels ==
    {<<"0", "0", "1">>, <<"1", "2">>, <<"0", "0", "1", NL, "A">>, <<"7", NL, "A", "B">>,
     <<>>, <<"3", NL>>}

\* sequences of at most n elements of a set
RECURSIVE SeqsUpTo(_, _)
SeqsUpTo(S, n) ==
    IF n = 0 THEN {<<>>}
    ELSE LET shorter == SeqsUpTo(S, n - 1)
         IN  shorter \cup { Append(s, e) : s \in { t \in shorter : Len(t) = n - 1 }, e \in S }

PageSize(width, height) == [width |-> QInt(width), height |-> QInt(height)]

A4 == PageSize(595, 842)

\* longest batch of the reconciliation runs
MaxBatch == 3

\* reconciliation: saveImagesAsPdf over batches of files of every kind of
\* metadata, one mark on the first image
DpiInit ==
    /\ CodecIdle
    /\ CrcIdle
    /\ HistoryIdle
    /\ ViewerIdle
    /\ ExportCall({"saveImagesAsPdf"},
                  Batches({ f.name : f \in Catalogue }, MaxBatch),
                  {<<>>},
                  {<<Cut("a", 0, Half, Tenth, <<"0", "0", "1">>)>>},
                  {DEFAULT_SETTINGS})

SipNext ==
    \/ SipScan
    \/ SipScanReadFails
    \/ SipResolve
    \/ SipPage
    \/ SipPageReadFails
    \/ PdfSave

SpecDpi == DpiInit /\ [][SipNext]_vars

\* longest batch, longest PDF and longest cut list of the export runs
MaxFiles == 3
MaxPages == 2
MaxCuts == 2

\* marks of the export runs: on the pages 0, 1, 2 and on a page no target
\* has, under two identities
ExportMarks ==
    { Cut(id, p, Half, Tenth, l) :
        id \in {"a", "b"}, p \in {0, 1, 2, 7}, l \in {<<"0", "0", "1">>, <<"2", NL, "A">>} }

\* the three exports over short targets and short mark lists
ExportInit ==
    /\ CodecIdle
    /\ CrcIdle
    /\ HistoryIdle
    /\ ViewerIdle
    /\ ExportCall({"saveMarkedPdf", "saveImagesAsPdf", "exportImagesAsZip"},
                  Batches({"e300.jpg", "none.png", "x.gif"}, MaxFiles),
                  SeqsUpTo({A4}, MaxPages),
                  SeqsUpTo(ExportMarks, MaxCuts),
                  {DEFAULT_SETTINGS, Settings(16, TRUE, 0, 0), Settings(12, TRUE, 4, 2)})

SpecExport == ExportInit /\ [][ExportNext]_vars

\* marks of the layout runs
LayoutMarks ==
    { Cut("a", 0, x, y, l) :
        x \in {QInt(0), Half, QInt(1)}, y \in {QInt(0), Tenth, QInt(1)}, l \in Labels }

LayoutSettings ==
    { Settings(fontSize, bg, padding, outline) :
        fontSize \in {12, 16}, bg \in BOOLEAN, padding \in {0, 4}, outline \in {0, 2} }

\* one mark on a target of one page or image, under every style
LayoutInit ==
    /\ CodecIdle
    /\ CrcIdle
    /\ HistoryIdle
    /\ ViewerIdle
    /\ ExportCall({"saveMarkedPdf", "saveImagesAsPdf", "exportImagesAsZip"},
                  { <<n>> : n \in {"e300.jpg", "none.png", "tiny.jpg"} },
                  { <<p>> : p \in {A4, PageSize(200, 100)} },
                  { <<m>> : m \in LayoutMarks },
                  LayoutSettings)

SpecLayout == LayoutInit /\ [][ExportNext]_vars

-----------------------------------------------------------------------------
(* Specification of the history: the handlers of useCuts as the App calls  *)
(* them, one call a step, from the state a session has left                *)

\* where a mark is put or dragged to (x in the middle of the page)
MarkYs == {Tenth, Half}

\* the numbers typed into the field of the next number
TypedNumbers == {1, 5}

\* settings.minDigits
MinDigits == 3

\* n drags of the mark "a", each from the mousedown over one move to the
\* mouseup, up and down in turn; without a mark there is nothing to drag
RECURSIVE DraggedTimes(_, _)
DraggedTimes(s, n) ==
    IF n = 0 \/ s.cuts = <<>> THEN s
    ELSE DraggedTimes(
             handleCutDragEnd(
                 updateCutPosition(setSelectedCutId(s, "a"), "a", Half,
                                   IF n % 2 = 1 THEN Tenth ELSE Half),
                 s.history, s.historyIndex),
             n - 1)

\* n presses of Ctrl+Z; at the base state a press does nothing
RECURSIVE UndoneTimes(_, _)
UndoneTimes(s, n) ==
    IF n = 0 \/ s.historyIndex = -1 THEN s ELSE UndoneTimes(undo(s), n - 1)

\* one mark put on the first page
WithMark == createCutAt(InitialHook, "a", 0, Half, Half, MinDigits, TRUE)

\* states of the hook: just mounted; two entries short of the limit; two
\* entries past the limit and all but one of the entries undone
Sessions ==
    {InitialHook,
     DraggedTimes(WithMark, HISTORY_LIMIT - 3),
     UndoneTimes(DraggedTimes(WithMark, HISTORY_LIMIT + 1), HISTORY_LIMIT - 1)}

HistoryInit ==
    /\ CodecIdle
    /\ ExportIdle
    /\ CrcIdle
    /\ ViewerIdle
    /\ \E s \in Sessions :
        /\ HookIs(s)
        /\ hMade = Len(s.cuts)
    /\ hDrag = NoDrag
    /\ hSteps = 0
    /\ hPrev = NothingRan
    /\ hPrior = NothingRan

\* a click on the page (the selection is cleared by the click handler of the
\* viewport, DocumentPreview.tsx line 177) or a row snap
AddCut ==
    /\ hMade < MaxMade
    /\ hMade' = hMade + 1
    /\ \E y \in MarkYs, autoIncrement \in BOOLEAN, byClick \in BOOLEAN :
        \E made \in {createCutAt(Hook, FreshId, 0, Half, y, MinDigits, autoIncrement)} :
            HandlerRan("addCut", TRUE,
                       IF byClick THEN setSelectedCutId(made, NoId) ELSE made)

\* CutMarker.tsx lines 104-153: the mousedown on a marker selects it and
\* keeps the onDragEnd of this render for the mouseup
DragStart ==
    /\ hSteps < MaxSteps
    /\ hDrag.id = NoId
    /\ \E id \in IdsOf(hCuts) :
        /\ hSelectedCutId' = id
        /\ hDrag' = [id |-> id, history |-> hHistory, historyIndex |-> hHistoryIndex,
                     cuts |-> hCuts, alone |-> TRUE]
    /\ hSteps' = hSteps + 1
    /\ hPrev' = Ran("dragStart", FALSE, TRUE, hCuts, hNumbering, hHistoryIndex)
    /\ hPrior' = hPrev
    /\ UNCHANGED <<hCuts, hHistory, hHistoryIndex, hBaseState, hNumbering, hMade>>
    /\ UNCHANGED nonHistoryVars

\* a mousemove of the drag
UpdateCutPosition ==
    /\ hSteps < MaxSteps
    /\ hDrag.id # NoId
    /\ \E y \in MarkYs : hCuts' = updateCutPosition(Hook, hDrag.id, Half, y).cuts
    /\ hSteps' = hSteps + 1
    /\ hPrev' = Ran("updateCutPosition", FALSE, FALSE, hCuts, hNumbering, hHistoryIndex)
    /\ hPrior' = hPrev
    /\ UNCHANGED <<hHistory, hHistoryIndex, hSelectedCutId, hBaseState, hNumbering,
                   hDrag, hMade>>
    /\ UNCHANGED nonHistoryVars

\* the mouseup of the drag
HandleCutDragEnd ==
    /\ hSteps < MaxSteps
    /\ hDrag.id # NoId
    /\ HookBecomes(handleCutDragEnd(Hook, hDrag.history, hDrag.historyIndex))
    /\ hDrag' = NoDrag
    /\ hSteps' = hSteps + 1
    /\ hPrev' = Ran("handleCutDragEnd", TRUE, hDrag.alone, hDrag.cuts, hNumbering,
                    hDrag.historyIndex)
    /\ hPrior' = hPrev
    /\ UNCHANGED hMade
    /\ UNCHANGED nonHistoryVars

\* the button of the selected marker
DeleteCut ==
    /\ hSelectedCutId \in IdsOf(hCuts)
    /\ HandlerRan("deleteCut", TRUE, deleteCut(Hook, hSelectedCutId))
    /\ UNCHANGED hMade

\* SidebarNumberingSettings.tsx lines 35-39 and 76-90
SetNumberingStateWithHistory ==
    /\ \E nextNumbering \in
            { NumberingState(n, hNumbering.branchChar) : n \in TypedNumbers }
                \cup {IF hNumbering.branchChar # <<>>
                      THEN NumberingState(hNumbering.nextNumber + 1, <<>>)
                      ELSE NumberingState(hNumbering.nextNumber, <<"A">>)} :
        HandlerRan("setNumberingStateWithHistory",
                   nextNumbering # hNumbering,
                   setNumberingStateWithHistory(Hook, nextNumbering))
    /\ UNCHANGED hMade

\* SidebarNumberingSettings.tsx lines 117-120: from the selected mark on
RenumberFromCut ==
    /\ hSelectedCutId # NoId
    /\ \E autoIncrement \in BOOLEAN :
        HandlerRan("renumberFromCut",
                   hSelectedCutId \in IdsOf(hCuts),
                   renumberFromCut(Hook, hSelectedCutId, hNumbering, MinDigits,
                                   autoIncrement))
    /\ UNCHANGED hMade

Undo ==
    /\ HandlerRan("undo", FALSE, undo(Hook))
    /\ UNCHANGED hMade

Redo ==
    /\ HandlerRan("redo", FALSE, redo(Hook))
    /\ UNCHANGED hMade

\* onLoadComplete of loadPdf and loadImages
ResetCuts ==
    /\ HandlerRan("resetCuts", FALSE, resetCuts(Hook))
    /\ UNCHANGED hMade

\* a click beside the page
SetSelectedCutId ==
    /\ HandlerRan("setSelectedCutId", FALSE, setSelectedCutId(Hook, NoId))
    /\ UNCHANGED hMade

HistoryNext ==
    \/ AddCut
    \/ DragStart
    \/ UpdateCutPosition
    \/ HandleCutDragEnd
    \/ DeleteCut
    \/ SetNumberingStateWithHistory
    \/ RenumberFromCut
    \/ Undo
    \/ Redo
    \/ ResetCuts
    \/ SetSelectedCutId

SpecHistory == HistoryInit /\ [][HistoryNext]_vars

-----------------------------------------------------------------------------
(* Specification of the viewer: documents are loaded and pages turned      *)
(* while the loads of the images and of the PDF complete in any order      *)

\* most handler calls of one run
MaxViewerSteps == 5

\* the PDF files opened, each its number of pages
Pdfs == {1, 3}

\* the image files picked or dropped, in the order the dialog gave them
ImageLists == {<<2, 1>>, <<1, 3, 2>>}

ViewerInit ==
    /\ CodecIdle
    /\ ExportIdle
    /\ CrcIdle
    /\ HistoryIdle
    /\ ViewerIdle

\* a handler of the viewer ran to the state v
ViewerRan(v) ==
    /\ vSteps < MaxViewerSteps
    /\ vSteps' = vSteps + 1
    /\ ViewerBecomes(v)
    /\ UNCHANGED nonViewerVars

\* onLoadComplete is resetCuts (App, line 119)
OnLoadComplete ==
    /\ HookBecomes(resetCuts(Hook))
    /\ UNCHANGED <<hDrag, hMade, hSteps, hPrev, hPrior>>

LoadPdf ==
    /\ \E file \in Pdfs : ViewerRan(loadPdf(Viewer, file))
    /\ OnLoadComplete

LoadImages ==
    /\ \E files \in ImageLists : ViewerRan(loadImages(Viewer, files))
    /\ OnLoadComplete

\* ArrowRight or Enter; the button of the next page calls setPage with
\* currentPage + 1 as well, and only while currentPage < numPages
PageNext ==
    /\ ViewerRan(setPage(Viewer, 1))
    /\ UNCHANGED historyVars

\* ArrowLeft
PagePrev ==
    /\ ViewerRan(setPage(Viewer, -1))
    /\ UNCHANGED historyVars

\* DocumentPreview.tsx line 220: the Document component has loaded pdfFile
OnLoadSuccess ==
    /\ vDocType = "pdf"
    /\ vLoading # NoPdf
    /\ ViewerBecomes([setNumPages(Viewer, vLoading) EXCEPT !.loading = NoPdf])
    /\ UNCHANGED <<vSteps, nonViewerVars, historyVars>>

\* the promises a run of loadImage awaits are settled
LoadImageResumes ==
    /\ \E i \in 1 .. Len(vEffects), fulfilled \in BOOLEAN :
        /\ vEffects[i].pc = "awaiting"
        /\ ViewerBecomes(loadImageResumed(Viewer, i, fulfilled))
    /\ UNCHANGED <<vSteps, nonViewerVars, historyVars>>

ViewerNext ==
    \/ LoadPdf
    \/ LoadImages
    \/ PageNext
    \/ PagePrev
    \/ OnLoadSuccess
    \/ LoadImageResumes

SpecViewer == ViewerInit /\ [][ViewerNext]_vars

-----------------------------------------------------------------------------

(* Specification of the checksum                                           *)

\* longest buffer of the checksum runs, and the bytes it is made of
MaxCrcLen == 3

CrcBytes == {0, 49, 128, 255}

\* the buffers crc32 is called with: every short buffer, the digits
\* "123456789", and the type and data of a pHYs chunk
CrcInputs ==
    SeqsUpTo(CrcBytes, MaxCrcLen)
        \cup {<<49, 50, 51, 52, 53, 54, 55, 56, 57>>, pHYsType \o PhysData(Dpi300)}

\* the module is loaded: makeCrcTable starts with an empty table
CrcInit ==
    /\ CodecIdle
    /\ ExportIdle
    /\ HistoryIdle
    /\ ViewerIdle
    /\ kTable = <<>>
    /\ kBuf = <<>>
    /\ kPos = 0
    /\ kReg = Reg(0, 0)
    /\ kOut = Reg(0, 0)
    /\ kPc = "table"

\* crc32(buf) is called (lines 170-171)
CrcCall ==
    /\ kPc = "ready"
    /\ kBuf' \in CrcInputs
    /\ kPos' = 0
    /\ kReg' = AllOnes
    /\ kPc' = "loop"
    /\ UNCHANGED <<kTable, kOut>>
    /\ UNCHANGED nonCrcVars

CrcNext == CrcTableEntry \/ CrcTableDone \/ CrcCall \/ CrcByte \/ CrcReturn

SpecCrc == CrcInit /\ [][CrcNext]_vars

-----------------------------------------------------------------------------
(* Claims about the codec (specification SpecCodec)                        *)

\* 0.01 DPI in model units
DpiTolerance == DpiUnits \div 100

Near(v, target) == v - target <= DpiTolerance /\ target - v <= DpiTolerance

ReadsBack300(r) == r.st = "dpi" /\ Near(r.x, 300 * DpiUnits) /\ Near(r.y, 300 * DpiUnits)

\* the 8-byte signature followed by a 25-byte header chunk
IsStdPng(b) ==
    /\ Len(b) >= 33
    /\ MatchBytes(b, 0, PngSig) = "yes"
    /\ U32(b, 8) = 13
    /\ MatchBytes(b, 12, <<73, 72, 68, 82>>) = "yes"

\* C1: for every JPEG buffer that begins with the start-of-image marker,
\* getImageResolution of the output of setBlobDpi(buffer, {300, 300}, 'jpeg')
\* is within 0.01 of 300 in x and in y.
C1_JpegRoundTrip ==
    (cPc = "done" /\ cType = "jpeg" /\ cDpi = Dpi300 /\ U16(cIn, 0) = SOI)
        => ReadsBack300(cRead)

\* C2: for every PNG buffer made of the signature, the 25-byte header chunk
\* and any further chunks (an existing pHYs chunk included),
\* getImageResolution of the output of setBlobDpi(buffer, {300, 300}, 'png')
\* is within 0.01 of 300 in x and in y.
C2_PngRoundTrip ==
    (cType = "png" /\ cDpi = Dpi300 /\ IsStdPng(cIn) /\ cPc \in {"written", "done"})
        => /\ cOut.st = "blob"
           /\ cPc = "done" => ReadsBack300(cRead)

\* a PNG that already states another resolution reads back as 300 DPI
C2_Witness ==
    /\ cPc = "done" /\ cType = "png" /\ cDpi = Dpi300 /\ IsStdPng(cIn)
    /\ cReadIn.st = "dpi" /\ ~ReadsBack300(cReadIn)
    /\ ReadsBack300(cRead)

\* the resolution a JFIF APP0 segment at offset o states, by the JFIF layout
\* (marker 2, length 2, identifier 5, version 2, units 1, X 2, Y 2): units at
\* o + 11, X density at o + 12, Y density at o + 14, where setBlobDpi writes
JfifStated(b, o) ==
    IF U8(b, o + 11) = 1 THEN Dpi(U16(b, o + 12) * DpiUnits, U16(b, o + 14) * DpiUnits)
    ELSE Dpi(U16(b, o + 12) * 25400, U16(b, o + 14) * 25400)

\* the first segment is a complete JFIF APP0 segment with unit 1 or 2
FirstSegIsJfif(b) ==
    /\ Len(b) >= 20
    /\ U16(b, 0) = SOI
    /\ U16(b, 2) = APP0
    /\ MatchBytes(b, 6, JFIF_ID) = "yes"
    /\ U8(b, 13) \in {1, 2}

\* C5: on an APP0 segment carrying 'JFIF\0', getImageResolution and
\* scanJpegMetadata both return the resolution of the segment's unit byte
\* and density fields as the JFIF layout places them: {X, Y} for unit 1,
\* {2.54 X, 2.54 Y} for unit 2.
C5_JfifRead ==
    (cPc # "start" /\ cType = "jpeg" /\ FirstSegIsJfif(cIn))
        => /\ cReadIn = JfifStated(cIn, 2)
           /\ cScanIn.st = "ok" /\ cScanIn.dpi = JfifStated(cIn, 2)

-----------------------------------------------------------------------------
(* Claims about the reconciliation (specification SpecDpi)                 *)

Dpi96 == Dpi(DEFAULT_DPI * DpiUnits, DEFAULT_DPI * DpiUnits)

\* the orientation-adjusted, positive resolution of a file of the batch,
\* rounded to two decimals; NullDpi when it has none
ResolvedOf(name) ==
    LET scanned == scanImageMetadata(FileNamed(name))
        adjusted == adjustDpiForOrientation(scanned.dpi, scanned.orientation)
    IN  IF adjusted.st = "dpi" /\ adjusted.x > 0 /\ adjusted.y > 0
        THEN normalizeDpi(adjusted)
        ELSE NullDpi

\* two resolutions differ by more than 0.01 in x or in y
FarApart(a, b) ==
    \/ Abs(a.x - b.x) > DpiTolerance
    \/ Abs(a.y - b.y) > DpiTolerance

SomeUnresolved == \E i \in 1 .. Len(xFiles) : ResolvedOf(xFiles[i]).st # "dpi"

SomeFarApart ==
    \E i, j \in 1 .. Len(xFiles) :
        /\ ResolvedOf(xFiles[i]).st = "dpi"
        /\ ResolvedOf(xFiles[j]).st = "dpi"
        /\ FarApart(ResolvedOf(xFiles[i]), ResolvedOf(xFiles[j]))

\* line 389 has been passed
EffectiveChosen == xOp = "saveImagesAsPdf" /\ xEff.st = "dpi"

\* C3: in saveImagesAsPdf, if some image of the batch has no resolvable
\* (orientation-adjusted, positive) resolution, or some two images have
\* two-decimal resolutions more than 0.01 apart in x or in y, the effective
\* DPI is exactly {96, 96} and every page is scaled by 72/96.
C3_BatchFallback ==
    (EffectiveChosen /\ (SomeUnresolved \/ SomeFarApart))
        => /\ xEff = Dpi96
           /\ \A p \in 1 .. Len(xDoc) : xDoc[p].scaleFactor = QNorm(POINTS_PER_INCH, DEFAULT_DPI)

\* the resolution the metadata of a file states: that of its JFIF segment by
\* the JFIF layout, else that of its Exif block or pHYs chunk
StatedOf(name) ==
    LET file == FileNamed(name)
        scanned == scanImageMetadata(file)
    IN  IF ImgTypeOf(file) = "jpeg" /\ FirstSegIsJfif(file.bytes)
        THEN JfifStated(file.bytes, 2)
        ELSE adjustDpiForOrientation(scanned.dpi, scanned.orientation)

AllStateTheSame ==
    /\ xFiles # <<>>
    /\ \A i \in 1 .. Len(xFiles) :
        /\ StatedOf(xFiles[i]).st = "dpi"
        /\ StatedOf(xFiles[i]) = StatedOf(xFiles[1])

\* C4: when every image of a non-empty batch carries resolution metadata and
\* all state the same resolution, the effective DPI of saveImagesAsPdf is
\* that resolution rounded to two decimals, not the 96-DPI default.
C4_BatchAgreement ==
    (EffectiveChosen /\ AllStateTheSame) => xEff = normalizeDpi(StatedOf(xFiles[1]))

\* no image of the batch carries resolution metadata the scan reads
NoneReadable ==
    \A i \in 1 .. Len(xFiles) : scanImageMetadata(FileNamed(xFiles[i])).dpi.st # "dpi"

\* C6 as stated: when no image of the batch carries readable resolution
\* metadata, the scale factor handed to the vector compositor is 1.0.
C6_UnknownScaleOne ==
    (xOp = "saveImagesAsPdf" /\ NoneReadable)
        => \A p \in 1 .. Len(xDoc) : xDoc[p].scaleFactor = QInt(1)

\* the sizes the calls of a page were made with
TextSizesOf(ops) == { ops[i].args[3] : i \in { j \in 1 .. Len(ops) : ops[j].op = "drawText" } }
LineWidthsOf(ops) == { ops[i].args[1] : i \in { j \in 1 .. Len(ops) : ops[j].op = "w" } }

\* C6: when no image of the batch carries readable resolution metadata, the
\* effective DPI is the 96 default and the scale factor handed to the vector
\* compositor, by which font size, padding and outline width are multiplied,
\* is 72/96 = 0.75.
C6_UnknownScaleDefault ==
    (xOp = "saveImagesAsPdf" /\ NoneReadable)
        => /\ xEff.st = "dpi" => xEff = Dpi96
           /\ \A p \in 1 .. Len(xDoc) :
                /\ xDoc[p].scaleFactor = QNorm(3, 4)
                /\ TextSizesOf(xDoc[p].ops) \subseteq {QMul(QInt(xSettings.fontSize), QNorm(3, 4))}
                /\ LineWidthsOf(xDoc[p].ops)
                     \subseteq {QMul(QInt(2 * xSettings.textOutlineWidth), QNorm(3, 4))}

\* two images without metadata exported, the mark of the first drawn at 9 pt
C6_Witness ==
    /\ xOp = "saveImagesAsPdf" /\ xPc = "done" /\ NoneReadable
    /\ Len(xFiles) = 2 /\ Len(xDoc) = 2
    /\ TextSizesOf(xDoc[1].ops) = {QInt(9)}
    /\ LineWidthsOf(xDoc[1].ops) = {QInt(3)}

-----------------------------------------------------------------------------
(* Claims about the exports (specification SpecExport)                     *)

\* the marks a sequence of calls was made for, in the order of their first
\* call, each run of calls for one mark counted once
RECURSIVE MarksDrawnUpTo(_, _)
MarksDrawnUpTo(ops, n) ==
    IF n = 0 THEN <<>>
    ELSE LET before == MarksDrawnUpTo(ops, n - 1)
         IN  IF ops[n].cut = 0 \/ (n > 1 /\ ops[n - 1].cut = ops[n].cut) THEN before
             ELSE Append(before, ops[n].cut)

MarksDrawn(ops) == MarksDrawnUpTo(ops, Len(ops))

\* s lists, in increasing order and once each, the positions of the marks of
\* xCuts whose pageIndex is i
ListsMarksOf(s, i) ==
    /\ \A a, b \in 1 .. Len(s) : a < b => s[a] < s[b]
    /\ { s[a] : a \in 1 .. Len(s) } = { k \in 1 .. Len(xCuts) : xCuts[k].pageIndex = i }

CountOps(ops, name, k) == Cardinality({ j \in 1 .. Len(ops) : ops[j].op = name /\ ops[j].cut = k })

\* the number of line breaks of a label, plus one
RECURSIVE LineCount(_)
LineCount(label) ==
    IF label = <<>> THEN 1
    ELSE LineCount(Tail(label)) + (IF Head(label) = NL THEN 1 ELSE 0)

\* C7: in saveMarkedPdf, saveImagesAsPdf and exportImagesAsZip the marks
\* drawn on the page or image made from source i are exactly the marks whose
\* pageIndex is i, each drawn once (one marked-content group on a page, one
\* fill per line on a canvas) in list order; a mark whose pageIndex matches no
\* source draws nothing and raises nothing, and the export completes with a
\* page or entry for every source it supports.
C7_MarkAssignment ==
    /\ \A p \in 1 .. Len(xDoc) :
        /\ ListsMarksOf(MarksDrawn(xDoc[p].ops), xDoc[p].src)
        /\ \A k \in 1 .. Len(xCuts) :
             xCuts[k].pageIndex = xDoc[p].src => CountOps(xDoc[p].ops, "BMC", k) = 1
    /\ \A e \in 1 .. Len(xZip) :
        /\ ListsMarksOf(MarksDrawn(xZip[e].ops), xZip[e].src)
        /\ \A k \in 1 .. Len(xCuts) :
             xCuts[k].pageIndex = xZip[e].src
                => CountOps(xZip[e].ops, "fillText", k) = LineCount(xCuts[k].label)
    /\ xPc = "thrown" => xErr = "read"
    /\ xPc = "done" =>
        /\ xOut # "none"
        /\ xOp = "saveMarkedPdf" => Len(xDoc) = Len(xPdf)
        /\ xOp = "exportImagesAsZip" => Len(xZip) = Len(xFiles)
        /\ xOp = "saveImagesAsPdf" =>
             Len(xDoc) = Cardinality({ i \in 1 .. Len(xFiles) :
                                         ImgTypeOf(FileNamed(xFiles[i])) # "none" })

\* a finished export of two sources: of its two marks one is drawn on the
\* second source and the other belongs to no source
C7_Witness ==
    /\ xPc = "done" /\ xOut # "none"
    /\ Len(xCuts) = 2 /\ xCuts[1].pageIndex = 7 /\ xCuts[2].pageIndex = 1
    /\ \/ Len(xDoc) = 2 /\ MarksDrawn(xDoc[1].ops) = <<>> /\ MarksDrawn(xDoc[2].ops) = <<2>>
       \/ Len(xZip) = 2 /\ MarksDrawn(xZip[1].ops) = <<>> /\ MarksDrawn(xZip[2].ops) = <<2>>

\* C8: if obtaining the bytes of a source file fails at any point of
\* saveImagesAsPdf or exportImagesAsZip, the export rejects and produces no
\* output: no PDF bytes are returned, no download is triggered.
C8_AllOrNothing ==
    /\ xErr = "read" => (xPc = "thrown" /\ xOut = "none")
    /\ xOut # "none" => (xPc = "done" /\ xErr = "none")

\* the read of the second image fails after the first went into the archive
C8_Witness ==
    /\ xOp = "exportImagesAsZip" /\ xErr = "read" /\ xPc = "thrown"
    /\ Len(xZip) = 1 /\ Len(xFiles) = 2 /\ xOut = "none"

-----------------------------------------------------------------------------
(* Claims about the layout (specification SpecLayout)                      *)

\* the calls of one kind made for mark k
OpsFor(ops, name, k) ==
    LET Is(o) == o.op = name /\ o.cut = k
    IN  SelectSeq(ops, Is)

SeqRange(s) == { s[i] : i \in 1 .. Len(s) }

Two == QInt(2)

\* the width of a drawn line at the size it was drawn with
DrawnWidth(t, size) == QMul(QNorm(TextUnits(t.text), 1000), size)

\* the box of mark k on a page: horizontal centre at x * width, top edge at
\* height - y * height, the rectangle's lower edge boxHeight below it, every
\* line centred on the same x and set downward from the top edge
AnchoredOnPage(page, k) ==
    LET cut == xCuts[k]
        rects == OpsFor(page.ops, "drawRectangle", k)
        texts == OpsFor(page.ops, "drawText", k)
        size == QMul(QInt(xSettings.fontSize), page.scaleFactor)
        pad == QMul(QInt(xSettings.backgroundPadding), page.scaleFactor)
        centre == QMul(cut.x, page.width)
        top == QSub(page.height, QMul(cut.y, page.height))
    IN  /\ \A r \in SeqRange(rects) :
            /\ QAdd(r.args[1], QDiv(r.args[3], Two)) = centre
            /\ QAdd(r.args[2], r.args[4]) = top
        /\ \A t \in SeqRange(texts) :
            QAdd(t.args[1], QDiv(DrawnWidth(t, size), Two)) = centre
        /\ { t.args[2] : t \in SeqRange(texts) } =
             { QSub(QSub(QSub(top, pad), QMul(size, QNorm(88, 100))), QMul(QInt(j), size)) :
                 j \in 0 .. LineCount(cut.label) - 1 }

\* the box of mark k on a canvas: horizontal centre at x * width, top edge
\* y * height below the top of the canvas
AnchoredOnCanvas(entry, k) ==
    LET cut == xCuts[k]
        rects == OpsFor(entry.ops, "fillRect", k)
        texts == OpsFor(entry.ops, "fillText", k) \o OpsFor(entry.ops, "strokeText", k)
        size == QInt(xSettings.fontSize)
        pad == QInt(xSettings.backgroundPadding)
        centre == QMul(cut.x, QInt(entry.width))
        top == QMul(cut.y, QInt(entry.height))
    IN  /\ \A r \in SeqRange(rects) :
            /\ QAdd(r.args[1], QDiv(r.args[3], Two)) = centre
            /\ r.args[2] = top
        /\ \A t \in SeqRange(texts) :
            QAdd(t.args[1], QDiv(DrawnWidth(t, size), Two)) = centre
        /\ { t.args[2] : t \in SeqRange(texts) } =
             { QAdd(QAdd(top, pad), QMul(QInt(j), size)) : j \in 0 .. LineCount(cut.label) - 1 }

\* C9: for every mark, page or canvas size and label, drawCutsOnPage and
\* exportImagesAsZip both place the box with its horizontal centre at
\* mark.x * width and its top edge mark.y * height below the top: in page
\* space the top edge is height - mark.y * height and the rectangle's lower
\* edge is boxHeight below it.
C9_Anchor ==
    /\ \A p \in 1 .. Len(xDoc) :
        \A k \in SeqRange(MarksDrawn(xDoc[p].ops)) : AnchoredOnPage(xDoc[p], k)
    /\ \A e \in 1 .. Len(xZip) :
        \A k \in SeqRange(MarksDrawn(xZip[e].ops)) : AnchoredOnCanvas(xZip[e], k)

\* on a 595 x 842 page the box of a mark at (0.5, 0.1) is centred at 297.5
\* with its top edge at 757.8
C9_Witness ==
    /\ xOp = "saveMarkedPdf" /\ xPc = "done" /\ Len(xDoc) = 1
    /\ xDoc[1].width = QInt(595) /\ xDoc[1].height = QInt(842)
    /\ xCuts[1].x = Half /\ xCuts[1].y = Tenth
    /\ \E r \in SeqRange(OpsFor(xDoc[1].ops, "drawRectangle", 1)) :
        /\ QAdd(r.args[1], QDiv(r.args[3], Two)) = QNorm(2975, 10)
        /\ QAdd(r.args[2], r.args[4]) = QNorm(7578, 10)

\* the widest of the drawn lines
WidestOf(texts, size) ==
    CHOOSE w \in { DrawnWidth(t, size) : t \in SeqRange(texts) } :
        \A t \in SeqRange(texts) : ~QLess(w, DrawnWidth(t, size))

\* the box of mark k drawn with calls of the given names under a scale:
\* one line per segment of the label, width the widest line plus twice the
\* scaled padding, height lineCount scaled font sizes plus twice the scaled
\* padding
BoxSized(ops, rectName, textName, passes, k, scale) ==
    LET cut == xCuts[k]
        rects == OpsFor(ops, rectName, k)
        texts == OpsFor(ops, textName, k)
        size == QMul(QInt(xSettings.fontSize), scale)
        pad == QMul(QInt(xSettings.backgroundPadding), scale)
    IN  /\ Len(texts) = passes * LineCount(cut.label)
        /\ Len(rects) = (IF xSettings.useWhiteBackground THEN 1 ELSE 0)
        /\ \A r \in SeqRange(rects) :
            /\ r.args[3] = QAdd(WidestOf(texts, size), QMul(Two, pad))
            /\ r.args[4] = QAdd(QMul(QInt(LineCount(cut.label)), size), QMul(Two, pad))

\* C10: the number of lines is the number of segments of the label between
\* line breaks, box width = widest measured line + 2 * padding * scale, box
\* height = lineCount * fontSize * scale + 2 * padding * scale, in
\* drawCutsOnPage under its scale factor and in exportImagesAsZip at scale 1.
C10_BoxDimensions ==
    /\ \A p \in 1 .. Len(xDoc) :
        \A k \in SeqRange(MarksDrawn(xDoc[p].ops)) :
            BoxSized(xDoc[p].ops, "drawRectangle", "drawText",
                     IF xSettings.textOutlineWidth > 0 THEN 2 ELSE 1, k, xDoc[p].scaleFactor)
    /\ \A e \in 1 .. Len(xZip) :
        \A k \in SeqRange(MarksDrawn(xZip[e].ops)) :
            BoxSized(xZip[e].ops, "fillRect", "fillText", 1, k, QInt(1))

\* '001' at font size 12, padding 4 and scale 1: one line in a box 20 high
C10_Witness ==
    /\ xOp = "saveMarkedPdf" /\ xPc = "done" /\ Len(xDoc) = 1
    /\ xCuts[1].label = <<"0", "0", "1">>
    /\ xSettings.fontSize = 12 /\ xSettings.backgroundPadding = 4
    /\ xSettings.textOutlineWidth = 0
    /\ xDoc[1].scaleFactor = QInt(1)
    /\ Len(OpsFor(xDoc[1].ops, "drawText", 1)) = 1
    /\ \E r \in SeqRange(OpsFor(xDoc[1].ops, "drawRectangle", 1)) : r.args[4] = QInt(20)

-----------------------------------------------------------------------------
(* The graphics state the calls leave behind: the q/Q stack of a page's    *)
(* content stream, the drawing state of a canvas context                   *)

White == <<QInt(1), QInt(1), QInt(1)>>

\* the graphics state a content stream starts in: fill text, line width 1,
\* black stroke, miter joins, butt caps
GsInitial ==
    [Tr |-> QInt(0), w |-> QInt(1), RG |-> <<QInt(0), QInt(0), QInt(0)>>,
     j |-> QInt(0), J |-> QInt(0)]

\* the graphics-state stack after the first n calls on a page, the state in
\* effect last; <<>> once a Q has found nothing to restore
RECURSIVE GsStack(_, _)
GsStack(ops, n) ==
    IF n = 0 THEN <<GsInitial>>
    ELSE LET s == GsStack(ops, n - 1)
             o == ops[n]
         IN  IF s = <<>> THEN <<>>
             ELSE IF o.op = "q" THEN Append(s, s[Len(s)])
             ELSE IF o.op = "Q" THEN SubSeq(s, 1, Len(s) - 1)
             ELSE IF o.op = "Tr" THEN [s EXCEPT ![Len(s)].Tr = o.args[1]]
             ELSE IF o.op = "w" THEN [s EXCEPT ![Len(s)].w = o.args[1]]
             ELSE IF o.op = "RG" THEN [s EXCEPT ![Len(s)].RG = o.args]
             ELSE IF o.op = "j" THEN [s EXCEPT ![Len(s)].j = o.args[1]]
             ELSE IF o.op = "J" THEN [s EXCEPT ![Len(s)].J = o.args[1]]
             ELSE s

\* the graphics state call i of a page is made in
GsAt(ops, i) == LET s == GsStack(ops, i - 1) IN s[Len(s)]

\* the state a canvas context has after canvas.width is assigned
CtxInitial ==
    [lineWidth |-> QInt(1), strokeStyle |-> "black", fillStyle |-> "black",
     lineJoin |-> "miter", lineCap |-> "butt"]

\* the state of the context after the first n calls
RECURSIVE CtxAfter(_, _)
CtxAfter(ops, n) ==
    IF n = 0 THEN CtxInitial
    ELSE LET c == CtxAfter(ops, n - 1)
             o == ops[n]
         IN  IF o.op = "lineWidth" THEN [c EXCEPT !.lineWidth = o.args[1]]
             ELSE IF o.op = "strokeStyle" THEN [c EXCEPT !.strokeStyle = o.color]
             ELSE IF o.op = "fillStyle" THEN [c EXCEPT !.fillStyle = o.color]
             ELSE IF o.op = "lineJoin" THEN [c EXCEPT !.lineJoin = o.color]
             ELSE IF o.op = "lineCap" THEN [c EXCEPT !.lineCap = o.color]
             ELSE c

\* the positions of the calls of one kind made for mark k
IndexesOf(ops, name, k) == { i \in 1 .. Len(ops) : ops[i].op = name /\ ops[i].cut = k }

\* the text calls of mark k on a page that stroke, and those that fill
StrokesOnPage(ops, k) == { i \in IndexesOf(ops, "drawText", k) : GsAt(ops, i).Tr = QInt(1) }
FillsOnPage(ops, k) == { i \in IndexesOf(ops, "drawText", k) : GsAt(ops, i).Tr = QInt(0) }

\* mark k on a page: with an outline, one white round stroke of width
\* 2 * outline * scale per line, all of them before the first fill; without,
\* no stroke; one black fill per line
PassesOnPage(page, k) ==
    LET strokes == StrokesOnPage(page.ops, k)
        fills == FillsOnPage(page.ops, k)
        lines == LineCount(xCuts[k].label)
        width == QMul(QInt(2 * xSettings.textOutlineWidth), page.scaleFactor)
    IN  /\ strokes \cup fills = IndexesOf(page.ops, "drawText", k)
        /\ Cardinality(fills) = lines
        /\ \A i \in fills : page.ops[i].color = "black"
        /\ IF xSettings.textOutlineWidth > 0
           THEN /\ Cardinality(strokes) = lines
                /\ \A i \in strokes :
                    /\ GsAt(page.ops, i).w = width
                    /\ GsAt(page.ops, i).RG = White
                    /\ GsAt(page.ops, i).j = QInt(1)
                    /\ GsAt(page.ops, i).J = QInt(1)
                /\ \A i \in strokes, f \in fills : i < f
           ELSE strokes = {}

\* the same for mark k on a canvas, at scale 1
PassesOnCanvas(entry, k) ==
    LET strokes == IndexesOf(entry.ops, "strokeText", k)
        fills == IndexesOf(entry.ops, "fillText", k)
        lines == LineCount(xCuts[k].label)
    IN  /\ Cardinality(fills) = lines
        /\ \A i \in fills : CtxAfter(entry.ops, i - 1).fillStyle = "black"
        /\ IF xSettings.textOutlineWidth > 0
           THEN /\ Cardinality(strokes) = lines
                /\ \A i \in strokes :
                    /\ CtxAfter(entry.ops, i - 1).lineWidth = QInt(2 * xSettings.textOutlineWidth)
                    /\ CtxAfter(entry.ops, i - 1).strokeStyle = "white"
                    /\ CtxAfter(entry.ops, i - 1).lineJoin = "round"
                    /\ CtxAfter(entry.ops, i - 1).lineCap = "round"
                /\ \A i \in strokes, f \in fills : i < f
           ELSE strokes = {}

\* the vector compositor alone keeps the two passes apart
VectorStrokeThenFill ==
    \A p \in 1 .. Len(xDoc) :
        \A k \in SeqRange(MarksDrawn(xDoc[p].ops)) : PassesOnPage(xDoc[p], k)

\* C11: for every mark drawn with outline width > 0, on a page and on a
\* canvas, all the stroke-only text calls of the mark (white, line width
\* 2 * outline width, round joins and caps), for all of its lines, come before
\* any of its fill (black) text calls; with outline width 0 there is no stroke
\* call and only the fill pass.
C11_StrokeThenFill ==
    /\ VectorStrokeThenFill
    /\ \A e \in 1 .. Len(xZip) :
        \A k \in SeqRange(MarksDrawn(xZip[e].ops)) : PassesOnCanvas(xZip[e], k)

\* the box of mark k as the style, the label and the anchor give it: width,
\* height, horizontal centre, and the distance of its top edge from the top
BoxOf(k, texts, scale, width, height) ==
    LET size == QMul(QInt(xSettings.fontSize), scale)
        pad == QMul(QInt(xSettings.backgroundPadding), scale)
    IN  [w |-> QAdd(WidestOf(texts, size), QMul(Two, pad)),
         h |-> QAdd(QMul(QInt(LineCount(xCuts[k].label)), size), QMul(Two, pad)),
         centre |-> QMul(xCuts[k].x, width),
         down |-> QMul(xCuts[k].y, height)]

\* mark k on a page: a white rectangle exactly when the background is
\* enabled, the size of the box at the place of the box, before all text
BackgroundOnPage(page, k) ==
    LET rects == IndexesOf(page.ops, "drawRectangle", k)
        box == BoxOf(k, OpsFor(page.ops, "drawText", k), page.scaleFactor,
                     page.width, page.height)
    IN  /\ Cardinality(rects) = (IF xSettings.useWhiteBackground THEN 1 ELSE 0)
        /\ \A r \in rects :
            /\ page.ops[r].color = "white"
            /\ page.ops[r].args =
                 <<QSub(box.centre, QDiv(box.w, Two)),
                   QSub(QSub(page.height, box.down), box.h), box.w, box.h>>
            /\ \A t \in IndexesOf(page.ops, "drawText", k) : r < t

\* the same on a canvas, the rectangle filled under a white fill style
BackgroundOnCanvas(entry, k) ==
    LET rects == IndexesOf(entry.ops, "fillRect", k)
        texts == IndexesOf(entry.ops, "fillText", k) \cup IndexesOf(entry.ops, "strokeText", k)
        box == BoxOf(k, OpsFor(entry.ops, "fillText", k), QInt(1),
                     QInt(entry.width), QInt(entry.height))
    IN  /\ Cardinality(rects) = (IF xSettings.useWhiteBackground THEN 1 ELSE 0)
        /\ \A r \in rects :
            /\ CtxAfter(entry.ops, r - 1).fillStyle = "white"
            /\ entry.ops[r].args =
                 <<QSub(box.centre, QDiv(box.w, Two)), box.down, box.w, box.h>>
            /\ \A t \in texts : r < t

\* C12: for every mark, on a page and on a canvas, a white rectangle is
\* painted if and only if the style has the background enabled; it has the
\* computed width and height of the box, lies at the position of the box, and
\* is issued before every text call (stroke or fill) of the same mark.
C12_Background ==
    /\ \A p \in 1 .. Len(xDoc) :
        \A k \in SeqRange(MarksDrawn(xDoc[p].ops)) : BackgroundOnPage(xDoc[p], k)
    /\ \A e \in 1 .. Len(xZip) :
        \A k \in SeqRange(MarksDrawn(xZip[e].ops)) : BackgroundOnCanvas(xZip[e], k)

\* a two-line mark on a canvas with background and outline: the rectangle is
\* the first call made for the mark, ahead of two strokes and two fills
C12_Witness ==
    /\ xOp = "exportImagesAsZip" /\ xPc = "done" /\ Len(xZip) = 1
    /\ xSettings.useWhiteBackground /\ xSettings.textOutlineWidth > 0
    /\ LineCount(xCuts[1].label) = 2
    /\ \E r \in IndexesOf(xZip[1].ops, "fillRect", 1) :
        /\ Cardinality(IndexesOf(xZip[1].ops, "strokeText", 1)) = 2
        /\ \A t \in IndexesOf(xZip[1].ops, "strokeText", 1) : r < t

\* a page of a style without background carries no rectangle
C12_WitnessNone ==
    /\ xOp = "saveMarkedPdf" /\ xPc = "done" /\ Len(xDoc) = 1
    /\ ~xSettings.useWhiteBackground
    /\ IndexesOf(xDoc[1].ops, "drawText", 1) # {}
    /\ IndexesOf(xDoc[1].ops, "drawRectangle", 1) = {}

-----------------------------------------------------------------------------
(* Claims about the order of the work (specification SpecExport)           *)

\* the sources of the first n that the export makes an output for: every page
\* of a PDF, every image of an archive, the JPEG and PNG files of a PDF made
\* from images
Handled(n) ==
    { i \in 0 .. n - 1 :
        xOp = "saveImagesAsPdf" => ImgTypeOf(FileNamed(xFiles[i + 1])) # "none" }

\* the sources of the outputs made so far, in the order of the outputs
SourcesOf(outs) == [j \in 1 .. Len(outs) |-> outs[j].src]

\* a sequence lists a set of numbers in increasing order
Ascending(s, S) ==
    /\ SeqRange(s) = S
    /\ \A a, b \in 1 .. Len(s) : a < b => s[a] < s[b]

\* C13: saveImagesAsPdf and exportImagesAsZip take the images in the order of
\* the input list, and image k + 1 is begun only when image k is finished: at
\* every moment the outputs made are those of the supported images before the
\* loop index, none is missing and none is ahead, and the j-th page (entry)
\* comes from the j-th supported image.
C13_InputOrder ==
    /\ xI \in 0 .. (IF xOp = "saveMarkedPdf" THEN Len(xPdf) ELSE Len(xFiles))
    /\ xOp \in {"saveMarkedPdf", "saveImagesAsPdf"} => Ascending(SourcesOf(xDoc), Handled(xI))
    /\ xOp = "exportImagesAsZip" =>
        /\ Ascending(SourcesOf(xZip), Handled(xI))
        /\ \A e \in 1 .. Len(xZip) : xZip[e].name = xFiles[xZip[e].src + 1]

\* three files, the second of a type that is skipped: the second page comes
\* from the third file
C13_Witness ==
    /\ xOp = "saveImagesAsPdf" /\ xPc = "done"
    /\ xFiles = <<"e300.jpg", "x.gif", "none.png">>
    /\ SourcesOf(xDoc) = <<0, 2>>

\* C14: over N images exportImagesAsZip calls onProgress exactly N times,
\* with (current, total) = (k, N) for k = 1 .. N in increasing order, and the
\* call that reports k is made only when image k is finished: rendered,
\* encoded and in the archive.
C14_ProgressPerCompleted ==
    xOp = "exportImagesAsZip" =>
        /\ \A j \in 1 .. Len(xProgress) :
            /\ xProgress[j].current = j
            /\ xProgress[j].total = Len(xFiles)
            /\ xProgress[j].stored >= j
        /\ Len(xProgress) <= Len(xZip)
        /\ xPc = "done" => Len(xProgress) = Len(xFiles)

\* what the code does: the call that reports k is made when image k is begun,
\* the archive holding k - 1 entries
ProgressPerStarted ==
    xOp = "exportImagesAsZip" =>
        /\ \A j \in 1 .. Len(xProgress) :
            /\ xProgress[j].current = j
            /\ xProgress[j].total = Len(xFiles)
            /\ xProgress[j].stored = j - 1
        /\ xPc = "done" => Len(xProgress) = Len(xFiles)

-----------------------------------------------------------------------------
(* Claims about failures of the codec (specification SpecCodec)            *)

\* the readers have been applied to the input
InputRead == cPc \in {"read", "written", "done"}

\* the length of the magic number of a container type
MagicLen(type) == IF type = "jpeg" THEN 2 ELSE IF type = "png" THEN 8 ELSE 0

\* getImageResolution alone raises for no input
ResolutionReadNeverRaises == InputRead => cReadIn.st # "throw"

\* C15: for every input, an empty file, a file shorter than the 2-byte JPEG
\* or the 8-byte PNG magic number, a buffer cut inside a segment or chunk or
\* with a length field that points past the end included, getImageResolution
\* and the scan of scanJpegMetadata, scanPngMetadata and readExifInfoFromTiff
\* raise nothing and return null fields for what they cannot read.
C15_ReadNeverRaises ==
    InputRead =>
        /\ cReadIn.st # "throw"
        /\ cScanIn.st # "throw"
        /\ Len(cIn) < MagicLen(cType) =>
            (cReadIn = NullDpi /\ cScanIn = Scanned(NullDpi, 0))

\* the bytes begin as an image of the type does
Recognisable(b, type) ==
    \/ type = "jpeg" /\ U16(b, 0) = SOI
    \/ type = "png" /\ Len(b) >= 8 /\ SubSeq(b, 1, 8) = PngSig

\* C16: setBlobDpi completes without raising for every input byte sequence
\* and container type, buffers shorter than the headers it inspects included
\* (a JPEG of fewer than 11 bytes, a PNG of fewer than 33 bytes), and returns
\* the input unchanged whenever the container type is not jpeg or png or the
\* bytes are not a recognisable image of the declared type.
C16_InjectNeverRaises ==
    cPc \in {"written", "done"} =>
        /\ cOut.st # "throw"
        /\ ~Recognisable(cIn, cType) => (cOut.st = "blob" /\ cOut.bytes = cIn)

\* the part of C16 that holds: a container type that is neither jpeg nor png,
\* and a JPEG that does not begin with the start-of-image marker, come back
\* unchanged
InjectLeavesOthersAlone ==
    cPc \in {"written", "done"} =>
        /\ cType \notin {"jpeg", "png"} => (cOut.st = "blob" /\ cOut.bytes = cIn)
        /\ (cType = "jpeg" /\ U16(cIn, 0) \notin {OOB, SOI}) =>
            (cOut.st = "blob" /\ cOut.bytes = cIn)

-----------------------------------------------------------------------------
(* Claims about the effective resolution (specification SpecDpi)           *)

\* the effective resolution has been chosen
Resolved == xOp = "saveImagesAsPdf" /\ xPc \in {"pages", "done"}

\* the scale factor handed to the compositor is positive for every page
ScalePositive == \A p \in 1 .. Len(xDoc) : QLess(QInt(0), xDoc[p].scaleFactor)

\* C17: for every batch of images, whatever positive or non-positive raw
\* values their metadata holds, positive values below 0.005 DPI included, the
\* effective resolution chosen by saveImagesAsPdf has x > 0 and y > 0, and
\* the scale factor passed to the compositor is > 0.
C17_PositiveResolution ==
    /\ Resolved => (xEff.st = "dpi" /\ xEff.x > 0 /\ xEff.y > 0)
    /\ ScalePositive

-----------------------------------------------------------------------------
(* Claims about what the output depends on (specification SpecExport)      *)

\* an id the runs use and an id they do not
MarkIds == {"a", "c"}

\* the mark lists that agree with cuts in pageIndex, x, y and label, under
\* every assignment of identities
SameContent(cuts) ==
    { [k \in 1 .. Len(cuts) |-> [cuts[k] EXCEPT !.id = ids[k]]] :
        ids \in [1 .. Len(cuts) -> MarkIds] }

\* the calls made for marks, those made for the page itself left out
MarkOps(ops) ==
    LET ForMark(o) == o.cut # 0
    IN  SelectSeq(ops, ForMark)

-----------------------------------------------------------------------------
(* Claims about the checksum (specification SpecCrc).  The reference is    *)
(* the CRC-32 of the PNG format computed one bit at a time on a register   *)
(* of 32 bits, bit 0 first.                                                *)

\* 0xEDB88320, bit 31 first
RefPolyMsbFirst ==
    <<1, 1, 1, 0,  1, 1, 0, 1,  1, 0, 1, 1,  1, 0, 0, 0,
      1, 0, 0, 0,  0, 0, 1, 1,  0, 0, 1, 0,  0, 0, 0, 0>>

RefPoly == [i \in 1 .. 32 |-> RefPolyMsbFirst[33 - i]]

RefOnes == [i \in 1 .. 32 |-> 1]

RefXor(a, b) == [i \in 1 .. 32 |-> (a[i] + b[i]) % 2]

RefShift(r) == [i \in 1 .. 32 |-> IF i = 32 THEN 0 ELSE r[i + 1]]

\* one shift-and-conditional-XOR step
RefBitStep(r) == IF r[1] = 1 THEN RefXor(RefShift(r), RefPoly) ELSE RefShift(r)

RefEightSteps(r) ==
    RefBitStep(RefBitStep(RefBitStep(RefBitStep(
        RefBitStep(RefBitStep(RefBitStep(RefBitStep(r))))))))

\* a value below 256 as a register
RefByte(v) == [i \in 1 .. 32 |-> IF i <= 8 THEN (v \div (2 ^ (i - 1))) % 2 ELSE 0]

\* the register after the first n bytes
RECURSIVE RefRegister(_, _)
RefRegister(buf, n) ==
    IF n = 0 THEN RefOnes
    ELSE RefEightSteps(RefXor(RefRegister(buf, n - 1), RefByte(buf[n])))

\* the checksum: the register after the last byte, every bit flipped
RefCrc32(buf) == RefXor(RefRegister(buf, Len(buf)), RefOnes)

\* the bits of a register of the model
RegBits(r) ==
    [i \in 1 .. 32 |->
        IF i <= 16 THEN (r.lo \div (2 ^ (i - 1))) % 2 ELSE (r.hi \div (2 ^ (i - 17))) % 2]

Unsigned32(r) == r.hi \in 0 .. 65535 /\ r.lo \in 0 .. 65535

\* C19: for every byte sequence crc32 returns, as an unsigned 32-bit value,
\* the standard reflected CRC-32 (polynomial 0xEDB88320, initial register
\* 0xFFFFFFFF, final XOR 0xFFFFFFFF) computed bit by bit; each of the 256
\* table entries equals eight shift-and-conditional-XOR steps applied to its
\* index; the result stays within 0 .. 2^32 - 1.
C19_Crc32 ==
    /\ \A n \in 1 .. Len(kTable) :
        Unsigned32(kTable[n]) /\ RegBits(kTable[n]) = RefEightSteps(RefByte(n - 1))
    /\ kPc = "loop" => RegBits(kReg) = RefRegister(kBuf, kPos)
    /\ kPc = "done" =>
        /\ Unsigned32(kOut)
        /\ RegBits(kOut) = RefCrc32(kBuf)
        /\ kOut = crc32(kBuf)

\* the checksum of the digits "123456789" is 0xCBF43926, taken with a table
\* of 256 entries
C19_Witness ==
    /\ kPc = "done" /\ Len(kTable) = 256
    /\ kBuf = <<49, 50, 51, 52, 53, 54, 55, 56, 57>>
    /\ kOut = Reg(52212, 14630)

-----------------------------------------------------------------------------
(* Claims about the operator stream of a page (specification SpecExport)   *)

\* the calls that change the stroke settings
StrokeSettingOps == {"Tr", "w", "RG", "j", "J"}

Depth(ops, n) == Len(GsStack(ops, n))

\* the calls of mark k on a page form one run a .. b of the stream:
\* q, BMC /Span, the drawing of the mark, EMC, Q; the graphics state after b
\* is the one before a, and between them the stack never falls to the level
\* it had before a
Bracketed(ops, k, a, b) ==
    /\ { i \in 1 .. Len(ops) : ops[i].cut = k } = a .. b
    /\ a + 3 <= b
    /\ ops[a].op = "q"
    /\ ops[a + 1].op = "BMC" /\ ops[a + 1].text = <<"Span">>
    /\ ops[b - 1].op = "EMC"
    /\ ops[b].op = "Q"
    /\ \A i \in a + 2 .. b - 2 : ops[i].op \notin {"BMC", "EMC"}
    /\ GsStack(ops, b) = GsStack(ops, a - 1)
    /\ \A i \in a .. b - 1 : Depth(ops, i) > Depth(ops, a - 1)

\* with an outline: inside the marked content one q ... Q pair c .. d holds
\* every stroke setting and every stroke of the mark, and every fill comes
\* after d in the graphics state the mark was begun in
OutlineIsolated(ops, k, a, b) ==
    \E c, d \in a + 2 .. b - 2 :
        /\ c < d
        /\ ops[c].op = "q" /\ ops[d].op = "Q"
        /\ \A i \in a + 2 .. b - 2 : ops[i].op \in {"q", "Q"} => i \in {c, d}
        /\ \A i \in a .. b : ops[i].op \in StrokeSettingOps => (c < i /\ i < d)
        /\ \A i \in StrokesOnPage(ops, k) : c < i /\ i < d
        /\ \A i \in c .. d - 1 : Depth(ops, i) = Depth(ops, a - 1) + 2
        /\ \A i \in FillsOnPage(ops, k) : d < i /\ GsAt(ops, i) = GsStack(ops, a - 1)[Depth(ops, a - 1)]

\* without: no save, restore or stroke setting inside the marked content
NoOutline(ops, k, a, b) ==
    \A i \in a + 2 .. b - 2 : ops[i].op \notin ({"q", "Q"} \cup StrokeSettingOps)

NestedOnPage(ops, k) ==
    \E a, b \in 1 .. Len(ops) :
        /\ Bracketed(ops, k, a, b)
        /\ IF xSettings.textOutlineWidth > 0
           THEN OutlineIsolated(ops, k, a, b)
           ELSE NoOutline(ops, k, a, b)

\* C20: for every list of marks and every style the operator stream of
\* drawCutsOnPage is, mark by mark, push-graphics-state, begin-marked-content
\* /Span, the drawing of the mark, end-marked-content, pop-graphics-state; the
\* outline pass has its own push/pop pair inside the marked content; pushes
\* and pops are balanced and nested, the graphics-state depth after a mark is
\* the depth before it, and the stroke settings of the outline (render mode,
\* line width, stroke colour, join, cap) are in effect neither in the fill
\* pass nor in a later mark.
C20_Nesting ==
    \A p \in 1 .. Len(xDoc) :
        /\ \A k \in SeqRange(MarksDrawn(xDoc[p].ops)) : NestedOnPage(xDoc[p].ops, k)
        /\ \A i \in 0 .. Len(xDoc[p].ops) : Depth(xDoc[p].ops, i) >= 1
        /\ GsStack(xDoc[p].ops, Len(xDoc[p].ops)) = <<GsInitial>>
        /\ \A i \in 1 .. Len(xDoc[p].ops) :
            (xDoc[p].ops[i].op = "drawText" /\ GsAt(xDoc[p].ops, i).Tr = QInt(0))
                => GsAt(xDoc[p].ops, i) = GsInitial

\* two outlined marks on one page: the strokes of the first are made two
\* levels down, and the second mark begins in the initial graphics state
C20_Witness ==
    /\ xOp = "saveMarkedPdf" /\ xPc = "done" /\ xSettings.textOutlineWidth > 0
    /\ \E p \in 1 .. Len(xDoc) :
        /\ MarksDrawn(xDoc[p].ops) = <<1, 2>>
        /\ \E i \in StrokesOnPage(xDoc[p].ops, 1) : Depth(xDoc[p].ops, i - 1) = 3
        /\ \E a \in IndexesOf(xDoc[p].ops, "BMC", 2) :
            GsStack(xDoc[p].ops, a - 2) = <<GsInitial>>

-----------------------------------------------------------------------------
(* Claims about the bytes setBlobDpi writes (specification SpecCodec)      *)

\* the first segment is a JFIF APP0 block: marker FFE0, identifier 'JFIF\0'
IsJfifBlock(b) == U16(b, 2) = APP0 /\ MatchBytes(b, 6, JFIF_ID) = "yes"

\* the first segment is there as far as it has to be looked at: its marker
\* and length, the identifier of an APP0 block, the fields of a JFIF block
FirstSegmentPresent(b) ==
    /\ Len(b) >= 4
    /\ U16(b, 2) = APP0 => Len(b) >= 11
    /\ IsJfifBlock(b) => Len(b) >= 18

\* a 16-bit value, most significant byte first
TwoBytes(v) == <<v \div 256, v % 256>>

\* marker FFE0, length 16, 'JFIF\0', version 1.1, unit 1, the two rounded
\* densities, thumbnail 0 x 0
StatedSegment(dpi) ==
    <<255, 224, 0, 16, 74, 70, 73, 70, 0, 1, 1, 1>>
        \o TwoBytes(RoundDpi16(dpi.x)) \o TwoBytes(RoundDpi16(dpi.y)) \o <<0, 0>>

\* C21: for a JPEG that starts with FFD8 and whose first segment is not a
\* JFIF APP0 block, setBlobDpi returns the first 2 bytes, the 18-byte JFIF
\* segment (unit 1, the rounded densities as 16-bit big-endian) and the rest
\* of the input unchanged, 18 bytes longer; when the first segment is a JFIF
\* APP0 block the output is as long as the input and differs from it only in
\* byte 13 (set to 1) and bytes 14-17 (the two densities).
C21_JpegSplice ==
    (cType = "jpeg" /\ cPc \in {"written", "done"}
        /\ U16(cIn, 0) = SOI /\ FirstSegmentPresent(cIn))
        => /\ cOut.st = "blob"
           /\ IF IsJfifBlock(cIn)
              THEN /\ Len(cOut.bytes) = Len(cIn)
                   /\ \A i \in 1 .. Len(cIn) :
                        (i - 1) \notin 13 .. 17 => cOut.bytes[i] = cIn[i]
                   /\ cOut.bytes[14] = 1
                   /\ SubSeq(cOut.bytes, 15, 16) = TwoBytes(RoundDpi16(cDpi.x))
                   /\ SubSeq(cOut.bytes, 17, 18) = TwoBytes(RoundDpi16(cDpi.y))
              ELSE /\ Len(cOut.bytes) = Len(cIn) + 18
                   /\ cOut.bytes =
                        SubSeq(cIn, 1, 2) \o StatedSegment(cDpi) \o SubSeq(cIn, 3, Len(cIn))

\* a JPEG that opens with an Exif segment is given a segment of two different
\* densities
C21_Witness ==
    /\ cType = "jpeg" /\ cPc = "written" /\ U16(cIn, 0) = SOI
    /\ FirstSegmentPresent(cIn)
    /\ U16(cIn, 2) = APP1
    /\ cDpi.x # cDpi.y
    /\ cOut.st = "blob" /\ Len(cOut.bytes) = Len(cIn) + 18

\* a JPEG that opens with a JFIF block in dots per centimetre has its unit and
\* densities overwritten
C21_WitnessOverwrite ==
    /\ cType = "jpeg" /\ cPc = "written" /\ U16(cIn, 0) = SOI
    /\ IsJfifBlock(cIn) /\ FirstSegmentPresent(cIn)
    /\ cIn[14] = 2
    /\ cOut.st = "blob" /\ cOut.bytes[14] = 1
    /\ SubSeq(cOut.bytes, 15, 18) # SubSeq(cIn, 15, 18)

\* a 32-bit value, most significant byte first
FourBytes(v) == <<v \div 16777216, (v \div 65536) % 256, (v \div 256) % 256, v % 256>>

\* the 4 type bytes 'pHYs' and the 9 data bytes
StatedTypeAndData(dpi) ==
    <<112, 72, 89, 115>>
        \o FourBytes(PixelsPerMetre(dpi.x)) \o FourBytes(PixelsPerMetre(dpi.y)) \o <<1>>

\* C22: for a PNG of at least 33 bytes setBlobDpi returns the first 33 bytes,
\* a 21-byte chunk and the rest of the input unchanged, 21 bytes longer; the
\* chunk is length 9, type 'pHYs', round(dpi.x / 0.0254) and
\* round(dpi.y / 0.0254) as 32-bit big-endian, unit byte 1 and the CRC-32 of
\* the 4 type bytes followed by the 9 data bytes, the length field excluded.
C22_PngSplice ==
    (cType = "png" /\ cPc \in {"written", "done"} /\ Len(cIn) >= 33)
        => /\ cOut.st = "blob"
           /\ Len(cOut.bytes) = Len(cIn) + 21
           /\ SubSeq(cOut.bytes, 1, 33) = SubSeq(cIn, 1, 33)
           /\ SubSeq(cOut.bytes, 34, 50) = <<0, 0, 0, 9>> \o StatedTypeAndData(cDpi)
           /\ SubSeq(cOut.bytes, 51, 54) = RegBytes(crc32(StatedTypeAndData(cDpi)))
           /\ SubSeq(cOut.bytes, 55, Len(cOut.bytes)) = SubSeq(cIn, 34, Len(cIn))

\* a PNG with chunks after its header chunk is given a chunk of two
\* different densities, 2835 and 3780 pixels per metre
C22_Witness ==
    /\ cType = "png" /\ cPc = "written" /\ Len(cIn) > 33
    /\ cDpi = Dpi(72 * DpiUnits, 96 * DpiUnits)
    /\ cOut.st = "blob"
    /\ SubSeq(cOut.bytes, 42, 50) = <<0, 0, 11, 19, 0, 0, 14, 196, 1>>
    /\ SubSeq(cOut.bytes, 55, Len(cOut.bytes)) = SubSeq(cIn, 34, Len(cIn))

\* half a pixel per metre, in model units of resolution
PpmRounding == 127

\* the value read is the one given, up to the rounding to whole pixels per
\* metre
ReadsBackAs(r, given) ==
    /\ r.st = "dpi"
    /\ r.x - given.x <= PpmRounding /\ given.x - r.x <= PpmRounding
    /\ r.y - given.y <= PpmRounding /\ given.y - r.y <= PpmRounding

\* C30: for every PNG of at least 33 bytes with a standard header chunk, one
\* that already holds a pHYs chunk (of the source or of an earlier injection)
\* included, getImageResolution of setBlobDpi(png, r2, 'png') returns r2 up
\* to the rounding to pixels per metre, never the earlier resolution.
C30_LastInjectionWins ==
    (cType = "png" /\ cPc = "done" /\ IsStdPng(cIn))
        => ReadsBackAs(cRead, cDpi)

\* a PNG written by an earlier injection of another resolution, which read
\* as that resolution before, reads as the new one
C30_Witness ==
    /\ cType = "png" /\ cPc = "done"
    /\ \E r1 \in InjectedDpis :
        /\ cIn = SetBlobDpiPng(PngSig \o IhdrChunk \o IdatChunk \o IendChunk, r1).bytes
        /\ ReadsBackAs(cReadIn, r1)
        /\ ~ReadsBackAs(cReadIn, cDpi)
    /\ ReadsBackAs(cRead, cDpi)

-----------------------------------------------------------------------------
(* Claims about the order of a batch (specification SpecDpi)               *)

\* saveImagesAsPdf lines 368-389 as a function of the batch: the loop from
\* file i on with baseDpi = base, then the choice of line 389; Thrown when a
\* scan raises
RECURSIVE ReconcileFrom(_, _, _)
ReconcileFrom(files, i, base) ==
    IF i > Len(files)
    THEN IF base.st # "dpi" THEN Dpi(DEFAULT_DPI * DpiUnits, DEFAULT_DPI * DpiUnits) ELSE base
    ELSE
    LET scanned == scanImageMetadata(FileNamed(files[i]))
        adjusted == adjustDpiForOrientation(scanned.dpi, scanned.orientation)
        normalized == normalizeDpi(adjusted)
    IN  IF scanned.st = "throw" THEN Thrown
        ELSE IF adjusted.st # "dpi" \/ adjusted.x <= 0 \/ adjusted.y <= 0
        THEN Dpi(DEFAULT_DPI * DpiUnits, DEFAULT_DPI * DpiUnits)
        ELSE IF base.st # "dpi" THEN ReconcileFrom(files, i + 1, normalized)
        ELSE IF ~isSameDpi(base, normalized)
        THEN Dpi(DEFAULT_DPI * DpiUnits, DEFAULT_DPI * DpiUnits)
        ELSE ReconcileFrom(files, i + 1, base)

effectiveDpi(files) == ReconcileFrom(files, 1, NullDpi)

\* the batches made of the same files in any order
PermutationsOf(files) ==
    { b \in Batches({ files[i] : i \in 1 .. Len(files) }, Len(files)) : Len(b) = Len(files) }

\* the scan of every file of the batch returns
AllScanned == \A i \in 1 .. Len(xFiles) : scanImageMetadata(FileNamed(xFiles[i])).st # "throw"

\* the loop of the run and the function agree
ReconcileAsRun == EffectiveChosen => xEff = effectiveDpi(xFiles)

\* C28: every permutation of the batch makes saveImagesAsPdf choose the same
\* effective DPI: the same decision between the common resolution and the
\* 96-DPI fallback, and the same value.
C28_OrderIndependent ==
    (EffectiveChosen /\ AllScanned)
        => \A other \in PermutationsOf(xFiles) : effectiveDpi(other) = xEff

\* two files whose resolutions are 0.01 apart: the value chosen is that of
\* the file that comes first
C28_ValueOfFirst ==
    /\ EffectiveChosen /\ Len(xFiles) = 2
    /\ xEff # Dpi96
    /\ effectiveDpi(<<xFiles[2], xFiles[1]>>) \notin {xEff, Dpi96, Thrown}

\* three files, two of them 0.02 apart and the third between them: the
\* common resolution is chosen when the third comes first, the fallback when
\* it does not
C28_DecisionOfFirst ==
    /\ EffectiveChosen /\ Len(xFiles) = 3 /\ AllScanned
    /\ xEff # Dpi96
    /\ \E other \in PermutationsOf(xFiles) : effectiveDpi(other) = Dpi96

-----------------------------------------------------------------------------
(* Claims about the history of the marks (specification SpecHistory)       *)

HookUnchanged ==
    UNCHANGED <<hCuts, hHistory, hHistoryIndex, hSelectedCutId, hBaseState, hNumbering>>

IndexInBounds ==
    /\ -1 <= hHistoryIndex
    /\ hHistoryIndex <= Len(hHistory) - 1
    /\ Len(hHistory) <= HISTORY_LIMIT

\* C24: historyIndex is always between -1 and history.length - 1, the
\* history never holds more than HISTORY_LIMIT (100) entries, and undo at
\* historyIndex -1 and redo at historyIndex history.length - 1 change nothing
C24_IndexInBounds ==
    /\ []IndexInBounds
    /\ [][((Undo /\ hHistoryIndex = -1) \/ (Redo /\ hHistoryIndex = Len(hHistory) - 1))
            => HookUnchanged]_vars

\* an entry was pushed onto a full history, whose oldest entry was dropped
C24_Witness ==
    /\ hPrev.pushed
    /\ hPrev.historyIndex = HISTORY_LIMIT - 1
    /\ Len(hHistory) = HISTORY_LIMIT
    /\ hHistoryIndex = HISTORY_LIMIT - 1

\* undo was called at the base state, redo at the newest entry
C24_WitnessUndoAtBase == hPrev.kind = "undo" /\ hPrev.historyIndex = -1

C24_WitnessRedoAtEnd ==
    /\ hPrev.kind = "redo"
    /\ hPrev.historyIndex = Len(hHistory) - 1
    /\ hHistory # <<>>

\* the handler before the last one pushed an entry, the last one was undo,
\* and no key was pressed while a marker was held (a drag is one operation,
\* from its mousedown to its mouseup)
UndoAfterOperation ==
    /\ hPrev.kind = "undo"
    /\ hPrev.quiet
    /\ hPrior.pushed
    /\ hPrior.quiet

\* a push onto a full history whose newest entry is the current one
PushOntoFull ==
    /\ Len(hHistory) = HISTORY_LIMIT
    /\ hHistoryIndex = HISTORY_LIMIT - 1
    /\ hPrev'.pushed
    /\ hPrev'.quiet

C23_WitnessBase ==
    /\ UndoAfterOperation
    /\ hPrior.historyIndex = -1
    /\ hHistoryIndex = -1

\* a drag that moved the marker was undone
C23_WitnessDrag ==
    /\ UndoAfterOperation
    /\ hPrior.kind = "handleCutDragEnd"
    /\ hPrior.cuts # hHistory[hHistoryIndex + 2].cuts

\* the last handler pushed an entry, with no key pressed while a marker was held
OperationCommitted == hPrev.pushed /\ hPrev.quiet

\* a handler that pushes an entry runs from index i: the entries up to i
\* stay, less those the limit drops, and the new entry is the last one
PushKeepsOnlyThePrefix ==
    (hPrev'.pushed /\ hPrev'.quiet) =>
        \E kept \in {SubSeq(hHistory, 1, hHistoryIndex + 1)} :
            \E dropped \in {IF Len(kept) = HISTORY_LIMIT THEN 1 ELSE 0} :
                /\ Len(hHistory') = Len(kept) + 1 - dropped
                /\ SubSeq(hHistory', 1, Len(hHistory') - 1)
                       = SubSeq(kept, 1 + dropped, Len(kept))
                /\ hHistory'[Len(hHistory')] = HistoryEntry(hCuts', hNumbering')

\* undo and redo move along the entries and never change them
UndoRedoKeepEntries ==
    (hPrev'.kind \in {"undo", "redo"}) =>
        /\ UNCHANGED <<hHistory, hBaseState>>
        /\ hHistoryIndex' \in {hHistoryIndex - 1, hHistoryIndex, hHistoryIndex + 1}

\* redo ran right after an undo that undid something
RedoAfterUndo ==
    /\ hPrev.kind = "redo"
    /\ hPrev.quiet
    /\ hPrior.kind = "undo"
    /\ hPrior.quiet
    /\ hPrior.historyIndex > -1

C25_WitnessRedo ==
    /\ RedoAfterUndo
    /\ hPrev.cuts # hCuts

\* C29: selectedCutId is null or the id of a cut in cuts, after any sequence
\* of setSelectedCutId with the id of an existing cut, addCut, deleteCut,
\* undo, redo and resetCuts
C29_SelectionValid == hSelectedCutId = NoId \/ hSelectedCutId \in IdsOf(hCuts)

\* the selected mark was taken away by undo, the selection stayed
C29_UndoKeepsSelection ==
    /\ hPrev.kind = "undo"
    /\ hSelectedCutId # NoId
    /\ hSelectedCutId \in IdsOf(hPrev.cuts)
    /\ hSelectedCutId \notin IdsOf(hCuts)

-----------------------------------------------------------------------------
(* Claims about the viewer (specification SpecViewer)                      *)

\* C26: in every reachable state 1 <= currentPage <= max(1, numPages), also
\* when a document is loaded, pages are turned and the page count of the new
\* document is reported by onLoadSuccess only afterwards
C26_PageInRange ==
    /\ 1 <= vCurrentPage
    /\ vCurrentPage <= (IF vNumPages < 1 THEN 1 ELSE vNumPages)

\* the page count of the PDF arrived after the page was turned past it
C26_LateCountBelowPage ==
    /\ vDocType = "pdf"
    /\ vLoading = NoPdf
    /\ vNumPages = vPdfFile
    /\ vCurrentPage > vNumPages

\* no load is in flight
LoadsSettled == \A i \in 1 .. Len(vEffects) : vEffects[i].pc = "returned"

CurrentEffect == vEffects[Len(vEffects)]

\* a run that was superseded resumes: currentImageUrl stays, and the URL the
\* run made is revoked
LateLoadKeptOut ==
    \A i \in 1 .. Len(vEffects) :
        (/\ vEffects[i].pc = "awaiting"
         /\ vEffects[i].isCancelled
         /\ vEffects'[i].pc = "returned")
            => /\ vCurrentImageUrl' = vCurrentImageUrl
               /\ vCreated' \ vCreated \subseteq vRevoked'

\* every URL made is revoked, but the one the current run has installed
InstalledOrRevoked ==
    \A url \in vCreated :
        \/ url \in vRevoked
        \/ /\ url = CurrentEffect.urlToRevoke
           /\ url = vCurrentImageUrl
           /\ ~CurrentEffect.isCancelled

\* with no load in flight the URL shown, if any, is a live URL of the file
\* of the current page
ShowsCurrentPage ==
    (LoadsSettled /\ vCurrentImageUrl # NoUrl) =>
        /\ vDocType = "images"
        /\ vCurrentPage \in 1 .. Len(vImageFiles)
        /\ vCurrentImageUrl.file = vImageFiles[vCurrentPage]
        /\ vCurrentImageUrl \in vCreated \ vRevoked

\* C27: a load of the image effect that completes after the page or the list
\* of images has changed never sets currentImageUrl and the URL it made is
\* revoked; every URL installed is revoked when its run of the effect is
\* superseded; and once the loads have settled currentImageUrl belongs to
\* the current page
C27_NoStaleImage ==
    /\ [][LateLoadKeptOut]_vars
    /\ []InstalledOrRevoked
    /\ []ShowsCurrentPage

\* a superseded run made its URL after the current run had installed its own
C27_Witness ==
    /\ LoadsSettled
    /\ vCurrentImageUrl # NoUrl
    /\ \E url \in vRevoked :
        /\ url.serial > vCurrentImageUrl.serial
        /\ url.file # vCurrentImageUrl.file

\* an installed URL was revoked by the cleanup of its run
C27_WitnessSuperseded ==
    \E i \in 1 .. Len(vEffects) :
        /\ vEffects[i].isCancelled
        /\ vEffects[i].urlToRevoke # NoUrl
        /\ vEffects[i].urlToRevoke \in vRevoked

=============================================================================
